---------------------------- MODULE Spec2Model ----------------------------
(***************************************************************************)
(* ViamConnectionManager (custom_components/viam/connection.py) as a state *)
(* machine.  The manager runs on one asyncio event loop: code between two  *)
(* suspending awaits is atomic, so every action below is one such segment  *)
(* of a coroutine, from the point where it is resumed to the next network  *)
(* await (get_version, close, at_address, get_properties, get_readings) or *)
(* to its return.  ViamSensorCoordinator (custom_components/viam/sensor.py)*)
(* polls through the manager: its update loop and its refreshes are tasks  *)
(* of the same event loop, and async_unload_entry                          *)
(* (custom_components/viam/__init__.py) shuts the manager down.            *)
(***************************************************************************)
EXTENDS Integers, Sequences, FiniteSets, TLC

(* ------------------------------ bounds -------------------------------- *)
\* Number of coroutines (polling loops, cover entities, unload) using one manager.
NumTasks == 2
\* The clock runs for this many seconds after start when tasks interleave.
MaxTicks == 2
\* The clock runs for this many seconds when a single task makes the calls.
SeqTicks == 6
\* Sessions the transport hands out before every further connect fails.
MaxSessions == 2
\* Longest resource list a device reports.
MaxResources == 2
\* Callbacks that entities register with the manager; also the longest
\* listener list.
NumListeners == 2
\* Seconds before and after 10 * DefaultInterval over which staleness is
\* evaluated.
StaleMargin == 3
\* The clock runs for this many seconds while the coordinator is shut down:
\* long enough for the backoff window of a successful connect to pass, so
\* that a cancellation can reach the loop while it closes a session.
CoordTicks == 1

(* ------------------------- program constants -------------------------- *)
\* self._backoff_time = 1
MinBackoff == 1
\* min(30, 2 ** self._connection_attempts)
MaxBackoff == 30
\* DEFAULT_SENSOR_UPDATE_INTERVAL, in seconds
DefaultInterval == 30
\* The factor in is_sensor_stale: stale_threshold = 10 * self._update_interval
StaleFactor == 10
\* asyncio.wait_for(motor.get_properties(), timeout=5.0), and the same for
\* sensor.get_readings()
ProbeTimeout == 5
\* asyncio.wait_for(self._discover_components(), timeout=15.0)
DiscoverBudget == 15

Tasks == 1..NumTasks
\* resource_name.name of the resources a device may list
Names == {"a", "b"}
\* time.time() when the manager is constructed; _last_connection_attempt
\* starts at 0, so the first backoff check always passes.
StartTime == MaxBackoff
MaxTime == StartTime + MaxTicks
SeqMaxTime == StartTime + SeqTicks
Sessions == 1..MaxSessions
\* None for self._robot, and "no entry" in a registry
NoSession == 0

\* What iterating robot.resource_names yields next: the name of one more
\* resource (any name, repeats allowed), or the end of the list.
EndOfList == "<end>"
NextItems == Names \cup {EndOfList}

\* Listener callbacks; the callback of a listener in RaisingListeners raises
\* whenever it is called.
Listeners == 1..NumListeners
RaisingListeners == {1}

\* What a call to the device can fail with: asyncio.TimeoutError raised by
\* wait_for, or any other error of the transport.
TransportErrors == {"TimeoutError", "ConnectionError"}

EmptyRegistry == [n \in Names |-> NoSession]
\* Keys of a registry dict
Keys(reg) == {n \in Names : reg[n] # NoSession}

Min(x, y) == IF x < y THEN x ELSE y

VARIABLES
    \* ---- fields of ViamConnectionManager
    robot,                    \* self._robot: NoSession or the session held
    connection_lock,          \* self._connection_lock: 0 or the task holding it
    lock_waiters,             \* FIFO of tasks suspended in Lock.acquire
    last_connection_attempt,  \* self._last_connection_attempt
    connection_attempts,      \* self._connection_attempts
    backoff_time,             \* self._backoff_time
    motors,                   \* self._motors: name -> session of the handle
    sensors,                  \* self._sensors
    connection_listeners,     \* self._connection_listeners
    \* ---- coroutine frames
    pc,                       \* where each task is suspended
    current_time,             \* local current_time of ensure_connection
    component_name,           \* local component_name of _discover_components
    idx,                      \* position of the for loop in resource_names
    handle,                   \* session of the object whose call is awaited
    via,                      \* caller of _discover_components: "probe" or "connect"
    \* ---- fields of ViamSensorCoordinator
    sensor_readings,          \* self.sensor_readings: name -> reading, 0 absent
    sensor_timestamps,        \* self.sensor_timestamps: name -> time, 0 absent
    listeners,                \* self._listeners
    update_task,              \* self._update_task: "none", "running" or "done"
    \* ---- frames of _refresh, _update_loop and async_unload_entry
    refresh,                  \* the _refresh each task is in: "none", "loop", "first"
    new_readings,             \* local new_readings of _refresh
    sweep_time,               \* local current_time of _refresh
    todo,                     \* sensors of the copied dict not yet read
    sensor_name,              \* local sensor_name of _refresh
    outcome,                  \* how the reads of the sweep in progress ended,
                              \* per sensor: "none", "ok", "failed"
    update_interval,          \* self._update_interval, in seconds
    cancel_at,                \* where the loop task was suspended when cancelled
    unload,                   \* async_unload_entry: "none", "closing", "done"
    \* ---- environment
    now,                      \* time.time()
    sessions_made,            \* sessions created by RobotClient.at_address
    open_sessions,            \* sessions created on which close was never called
    \* ---- history of the run, read only by the properties
    requests,                 \* network requests issued by the task's current call
    in_window,                \* the call's backoff check saw now - last < backoff
    sess,                     \* session probed live or connected by the call
    discovered,               \* sessions on which a discovery pass ran to its end
    fail_streak,              \* failed connects since the last successful call
    connect_at,               \* instant of the latest at_address call, -1 if none
    joined,                   \* per task: the attempt in flight when it called
    scan,                     \* the discovery scan in progress or just finished:
                              \* the session scanned, the registries before and
                              \* after, what an accessor saw meanwhile, the
                              \* probes that answered so far, and the seconds the
                              \* scan has spent in probes that timed out
    ret,                      \* the ensure_connection return made by the last step
    note,                     \* the listener notification made by the last step
    update_note,              \* the data-update notification made by the last step
    sweep,                    \* the sweep that the last step ended: its task,
                              \* the sensors read and not read successfully,
                              \* and the ReadingSet published before it
    stale,                    \* the is_sensor_stale call made by the last step
    shut_down,                \* shutdown() has returned and no method of the
                              \* manager has been called since
    stopped,                  \* async_shutdown() has returned and the loop has
                              \* not been started again since
    last_note,                \* the boolean each listener was last called with
    \* ---- fields of ViamDataAPIClient
    data_client,              \* self._data_client: "none" or "client"
    data_lock,                \* self._connection_lock: 0 or the task holding it
    \* ---- fields of ViamDataAPICoordinator
    data_readings,            \* self.sensor_readings
    data_timestamps,          \* self.sensor_timestamps
    data_listeners,           \* self._listeners
    data_update_task,         \* self._update_task: "none" or "running"
    \* ---- frames of the Data API coroutines
    data_pc,                  \* where each task is suspended
    data_frame,               \* locals of _refresh, per task: the _refresh it
                              \* is in, new_readings, current_time, the names
                              \* not yet fetched, sensor_name, and how the
                              \* fetches of the sweep ended
    \* ---- history of the Data API run, read only by the properties
    tested,                   \* a test request succeeded on the client held
    data_ret,                 \* the ensure_connection return of the last step
    data_sweep,               \* the sweep that the last step ended
    data_note,                \* the data-update notification of the last step
    \* ---- fields of ViamCover
    is_opening,               \* self._is_opening
    is_closing,               \* self._is_closing
    is_closed,                \* self._is_closed
    current_position,         \* self._current_position
    \* ---- frames of the cover's service calls
    cover_pc,                 \* where each call is suspended
    cover_op,                 \* the service each task is in: "none", "open",
                              \* "close" or "stop"
    \* ---- history of the cover, read only by the properties
    power_sent,               \* the task's current call has issued set_power
    stop_sent,                \* the task's current call has issued stop
    cover_ret,                \* the service call that returned in the last step
    \* ---- fields of the legacy Hub
    hub_loop_task,            \* self._loop_task: "none" or "running"
    reconnect_event,          \* self._reconnect_event is set
    hub_connected,            \* self._connected
    tries,                    \* self._tries
    wait_task,                \* self._wait_task: "none" or "running"
    hub_robot,                \* self._robot: "none" or "robot"
    \* ---- frames of the Hub's tasks
    hub_pc,                   \* where the reconnect loop is suspended
    wait_time,                \* local wait_time of _wait_and_start_reconnect
    entity_pc,                \* where an entity's setup_viam_conn is suspended
    \* ---- history of the Hub, read only by the properties
    wait_tasks,               \* wait tasks created and not yet finished
    hub_test                  \* result of the connection test that ended in the
                              \* last step: "none", "ok" or "failed"

mgr_vars == <<robot, connection_lock, lock_waiters, last_connection_attempt,
              connection_attempts, backoff_time, motors, sensors,
              connection_listeners>>
frame_vars == <<pc, current_time, component_name, idx, handle, via>>
coord_vars == <<sensor_readings, sensor_timestamps, listeners, update_task,
                refresh, new_readings, sweep_time, todo, sensor_name,
                outcome, update_interval, cancel_at, unload>>
env_vars == <<now, sessions_made, open_sessions>>
hist_vars == <<requests, in_window, sess, discovered, fail_streak, connect_at,
               joined, scan, ret, note, last_note, update_note, sweep, stale,
               shut_down, stopped>>
\* The manager, the direct coordinator and their environment.
direct_vars == <<mgr_vars, frame_vars, coord_vars, env_vars, hist_vars>>
data_vars == <<data_client, data_lock, data_readings, data_timestamps,
               data_listeners, data_update_task, data_pc, data_frame, tested,
               data_ret, data_sweep, data_note>>
cover_vars == <<is_opening, is_closing, is_closed, current_position,
                cover_pc, cover_op, power_sent, stop_sent, cover_ret>>
hub_vars == <<hub_loop_task, reconnect_event, hub_connected, tries, wait_task,
              hub_robot, hub_pc, wait_time, entity_pc, wait_tasks, hub_test>>
vars == <<direct_vars, data_vars, cover_vars, hub_vars>>

NoScan == [state |-> "none", robot |-> NoSession,
           pre |-> <<EmptyRegistry, EmptyRegistry>>,
           post |-> <<EmptyRegistry, EmptyRegistry>>,
           obs |-> <<>>, log |-> {}, waited |-> 0]

NoReturn == [task |-> 0, how |-> "none", requests |-> {}, in_window |-> FALSE,
             sess |-> NoSession, joined |-> "none"]

NoNote == [value |-> "none", to |-> <<>>, called |-> <<>>, escaped |-> FALSE]

\* A ReadingSet or Timestamp Table is a dict keyed by sensor name; a name
\* without an entry maps to Absent.  A reading is told apart by the instant
\* the device answered.
Absent == -1
NoReadings == [n \in Names |-> Absent]
NoOutcome == [n \in Names |-> "none"]

NoSweep == [state |-> "none", task |-> 0, ok |-> {}, failed |-> {},
            prev |-> NoReadings]

NoStale == [name |-> EndOfList, value |-> FALSE]

\* self._current_position of a cover: closed and fully open.
PositionClosed == 0
PositionOpen == 100

\* No service call of the cover returned in the last step.
NoCoverReturn == [task |-> 0, op |-> "none", success |-> FALSE,
                  power_sent |-> FALSE, stop_sent |-> FALSE]

\* No ensure_connection of the Data API client returned in the last step.
NoDataReturn == [task |-> 0, value |-> "none", test |-> "none"]

\* The locals of a task that is not inside _refresh of the Data API
\* coordinator.
NoDataFrame == [refresh |-> "none", new_readings |-> NoReadings,
                current_time |-> 0, todo |-> {}, sensor_name |-> EndOfList,
                outcome |-> NoOutcome]

\* The state as one record, so that a segment of a coroutine is a function
\* from the state it is resumed in to the state it suspends or returns in.
Cur == [robot |-> robot, connection_lock |-> connection_lock,
        lock_waiters |-> lock_waiters,
        last_connection_attempt |-> last_connection_attempt,
        connection_attempts |-> connection_attempts,
        backoff_time |-> backoff_time, motors |-> motors, sensors |-> sensors,
        pc |-> pc, current_time |-> current_time,
        component_name |-> component_name, idx |-> idx, handle |-> handle,
        via |-> via,
        now |-> now, sessions_made |-> sessions_made,
        open_sessions |-> open_sessions,
        requests |-> requests, in_window |-> in_window, sess |-> sess,
        discovered |-> discovered, fail_streak |-> fail_streak,
        connect_at |-> connect_at, joined |-> joined, scan |-> scan,
        ret |-> ret,
        connection_listeners |-> connection_listeners,
        note |-> note, last_note |-> last_note,
        sensor_readings |-> sensor_readings,
        sensor_timestamps |-> sensor_timestamps,
        listeners |-> listeners, update_task |-> update_task,
        refresh |-> refresh, new_readings |-> new_readings,
        sweep_time |-> sweep_time, todo |-> todo,
        sensor_name |-> sensor_name, cancel_at |-> cancel_at,
        unload |-> unload, update_note |-> update_note,
        outcome |-> outcome, update_interval |-> update_interval,
        sweep |-> sweep, stale |-> stale,
        shut_down |-> shut_down, stopped |-> stopped]

\* F applied to the value of s: a segment that reads its starting state many
\* times is handed the state itself, not the expression that computes it.
Once(s, F(_)) == CHOOSE y \in {F(r) : r \in {s}} : TRUE

\* The state a step starts from: what the previous step reported (a return
\* of ensure_connection, the end of a scan) is history by now.
Fresh == [Cur EXCEPT !.ret = NoReturn,
                     !.note = NoNote,
                     !.update_note = NoNote,
                     !.sweep = NoSweep,
                     !.stale = NoStale,
                     !.scan = IF @.state = "done" THEN NoScan ELSE @]

Commit(s) ==
    \E r \in {s} :
        /\ robot' = r.robot
        /\ connection_lock' = r.connection_lock
        /\ lock_waiters' = r.lock_waiters
        /\ last_connection_attempt' = r.last_connection_attempt
        /\ connection_attempts' = r.connection_attempts
        /\ backoff_time' = r.backoff_time
        /\ motors' = r.motors
        /\ sensors' = r.sensors
        /\ pc' = r.pc
        /\ current_time' = r.current_time
        /\ component_name' = r.component_name
        /\ idx' = r.idx
        /\ handle' = r.handle
        /\ via' = r.via
        /\ now' = r.now
        /\ sessions_made' = r.sessions_made
        /\ open_sessions' = r.open_sessions
        /\ requests' = r.requests
        /\ in_window' = r.in_window
        /\ sess' = r.sess
        /\ discovered' = r.discovered
        /\ fail_streak' = r.fail_streak
        /\ connect_at' = r.connect_at
        /\ joined' = r.joined
        /\ scan' = r.scan
        /\ ret' = r.ret
        /\ connection_listeners' = r.connection_listeners
        /\ note' = r.note
        /\ last_note' = r.last_note
        /\ sensor_readings' = r.sensor_readings
        /\ sensor_timestamps' = r.sensor_timestamps
        /\ listeners' = r.listeners
        /\ update_task' = r.update_task
        /\ refresh' = r.refresh
        /\ new_readings' = r.new_readings
        /\ sweep_time' = r.sweep_time
        /\ todo' = r.todo
        /\ sensor_name' = r.sensor_name
        /\ cancel_at' = r.cancel_at
        /\ unload' = r.unload
        /\ update_note' = r.update_note
        /\ shut_down' = r.shut_down
        /\ stopped' = r.stopped
        /\ outcome' = r.outcome
        /\ update_interval' = r.update_interval
        /\ sweep' = r.sweep
        /\ stale' = r.stale
        /\ UNCHANGED <<data_vars, cover_vars, hub_vars>>

InitRest ==
    /\ robot = NoSession
    /\ connection_lock = 0
    /\ lock_waiters = <<>>
    /\ last_connection_attempt = 0
    /\ connection_attempts = 0
    /\ backoff_time = MinBackoff
    /\ motors = EmptyRegistry
    /\ sensors = EmptyRegistry
    /\ pc = [t \in Tasks |-> "idle"]
    /\ current_time = [t \in Tasks |-> 0]
    /\ component_name = [t \in Tasks |-> EndOfList]
    /\ idx = [t \in Tasks |-> 0]
    /\ handle = [t \in Tasks |-> NoSession]
    /\ via = [t \in Tasks |-> "none"]
    /\ sessions_made = 0
    /\ open_sessions = {}
    /\ requests = [t \in Tasks |-> {}]
    /\ in_window = [t \in Tasks |-> FALSE]
    /\ sess = [t \in Tasks |-> NoSession]
    /\ discovered = {}
    /\ fail_streak = 0
    /\ connect_at = -1
    /\ joined = [t \in Tasks |-> "none"]
    /\ scan = NoScan
    /\ ret = NoReturn
    /\ connection_listeners = <<>>
    /\ note = NoNote
    /\ last_note = [l \in Listeners |-> "none"]
    /\ sensor_readings = NoReadings
    /\ listeners = <<>>
    /\ update_task = "none"
    /\ refresh = [t \in Tasks |-> "none"]
    /\ new_readings = [t \in Tasks |-> NoReadings]
    /\ sweep_time = [t \in Tasks |-> 0]
    /\ todo = [t \in Tasks |-> {}]
    /\ sensor_name = [t \in Tasks |-> EndOfList]
    /\ cancel_at = "none"
    /\ unload = "none"
    /\ update_note = NoNote
    /\ shut_down = FALSE
    /\ stopped = FALSE
    /\ outcome = [t \in Tasks |-> NoOutcome]
    /\ sweep = NoSweep
    /\ stale = NoStale
    /\ data_client = "none"
    /\ data_lock = 0
    /\ data_readings = NoReadings
    /\ data_timestamps = NoReadings
    /\ data_listeners = <<>>
    /\ data_update_task = "none"
    /\ data_pc = [t \in Tasks |-> "idle"]
    /\ data_frame = [t \in Tasks |-> NoDataFrame]
    /\ tested = FALSE
    /\ data_ret = NoDataReturn
    /\ data_sweep = NoSweep
    /\ data_note = NoNote
    /\ is_opening = FALSE
    /\ is_closing = FALSE
    /\ is_closed = FALSE
    /\ current_position = PositionOpen
    /\ cover_pc = [t \in Tasks |-> "idle"]
    /\ cover_op = [t \in Tasks |-> "none"]
    /\ power_sent = [t \in Tasks |-> FALSE]
    /\ stop_sent = [t \in Tasks |-> FALSE]
    /\ cover_ret = NoCoverReturn
    /\ hub_loop_task = "none"
    /\ reconnect_event = FALSE
    /\ hub_connected = TRUE
    /\ tries = 0
    /\ wait_task = "none"
    /\ hub_robot = "none"
    /\ hub_pc = "none"
    /\ wait_time = 0
    /\ entity_pc = "idle"
    /\ wait_tasks = 0
    /\ hub_test = "none"

\* The state after construction, at StartTime, with the default interval.
Init ==
    /\ InitRest
    /\ now = StartTime
    /\ sensor_timestamps = NoReadings
    /\ update_interval = DefaultInterval

(* ------------------------- exception handling ------------------------- *)

\* The except clauses of each try statement of connection.py, of the two
\* coordinators of sensor.py, of data_api.py and of cover.py, in order.
ExceptClauses(site) ==
    CASE site = "test_connection" -> <<"TimeoutError", "Exception">>
      [] site = "connect" -> <<"TimeoutError", "Exception">>
      [] site = "discover" -> <<"Exception">>
      [] site = "motor_probe" -> <<"TimeoutError", "Exception">>
      [] site = "sensor_probe" -> <<"TimeoutError", "Exception">>
      [] site = "disconnect" -> <<"Exception">>
      [] site = "notify" -> <<"Exception">>
      [] site = "update_loop" -> <<"CancelledError", "Exception">>
      [] site = "refresh" -> <<"Exception">>
      [] site = "read" -> <<"TimeoutError", "Exception">>
      [] site = "refresh_notify" -> <<"Exception">>
      [] site = "data_connect" -> <<"Exception">>
      [] site = "data_test" -> <<"TimeoutError", "Exception">>
      [] site = "data_get" -> <<"TimeoutError", "Exception">>
      [] site = "data_read" -> <<"Exception">>
      [] site = "data_refresh" -> <<"Exception">>
      [] site = "data_notify" -> <<"Exception">>
      [] site = "motor_operation" -> <<"TimeoutError", "Exception">>
      [] site = "open_cover" -> <<"Exception">>
      [] site = "close_cover" -> <<"Exception">>
      [] site = "stop_cover" -> <<"TimeoutError", "Exception">>

\* Fault variant of Handlers: _disconnect without its `except Exception`.
HandlersNoDisconnect(site) ==
    IF site = "disconnect" THEN <<>> ELSE ExceptClauses(site)
\* Fault variant of Handlers: the per-sensor try of _refresh without its
\* except clauses.
HandlersNoRead(site) ==
    IF site = "read" THEN <<>> ELSE ExceptClauses(site)
\* Fault variant of Handlers: the two listener loops without their
\* `except Exception`.
HandlersNoNotify(site) ==
    IF site \in {"notify", "refresh_notify"} THEN <<>> ELSE ExceptClauses(site)
Handlers(site) == ExceptClauses(site)

\* isinstance(e, cls): every error here derives from Exception, except
\* asyncio.CancelledError, which derives from BaseException.
IsInstance(e, cls) == e = cls \/ (cls = "Exception" /\ e # "CancelledError")

\* Some except clause of the try statement matches the exception.
Caught(site, e) ==
    \E i \in DOMAIN Handlers(site) : IsInstance(e, Handlers(site)[i])

\* The loop of _notify_connection_listeners over a listener list: the
\* listeners called, and whether an exception left the loop.
RECURSIVE CallListeners(_, _)
CallListeners(list, site) ==
    IF list = <<>> THEN [called |-> <<>>, escaped |-> FALSE]
    ELSE IF Head(list) \in RaisingListeners /\ ~Caught(site, "ListenerError")
         THEN [called |-> <<Head(list)>>, escaped |-> TRUE]
         ELSE LET r == CallListeners(Tail(list), site)
              IN [called |-> <<Head(list)>> \o r.called,
                  escaped |-> r.escaped]

(* ----------------- segments of ViamSensorCoordinator ----------------- *)

\* The task that runs _update_loop once _start_update_loop has created it.
LoopTask == 1

\* The task that sets the entry up and later shuts it down or unloads it.
SetupTask == 2

\* The order in which the names of a dict come up when it is iterated.
NameOrder == <<"a", "b">>
First(S) ==
    NameOrder[CHOOSE i \in DOMAIN NameOrder :
                /\ NameOrder[i] \in S
                /\ \A j \in 1..(i - 1) : NameOrder[j] \notin S]

\* The locals of a _refresh frame are dropped.
ResetSweep(s, t) ==
    [s EXCEPT !.refresh[t] = "none",
              !.new_readings[t] = NoReadings,
              !.sweep_time[t] = 0,
              !.todo[t] = {},
              !.sensor_name[t] = EndOfList,
              !.outcome[t] = NoOutcome]

\* _update_loop is left, by `break` or by an exception: the task is done.
LoopExit(s, t) ==
    [ResetSweep(s, t) EXCEPT !.update_task = "done", !.pc[t] = "idle"]

\* _start_update_loop (lines 146-149): create the task unless one is running;
\* the new task runs up to `await asyncio.sleep(self._update_interval)`.
StartUpdateLoop(s) ==
    IF s.update_task \in {"none", "done"}
    THEN [s EXCEPT !.update_task = "running",
                   !.pc[LoopTask] = "loop_sleep",
                   !.stopped = FALSE]
    ELSE s

\* _refresh returns: to the top of the while loop of _update_loop, or to
\* async_config_entry_first_refresh, which starts the loop and returns.
RefreshReturn(s, t) ==
    IF s.refresh[t] = "loop"
    THEN [ResetSweep(s, t) EXCEPT !.pc[t] = "loop_sleep"]
    ELSE StartUpdateLoop([ResetSweep(s, t) EXCEPT !.pc[t] = "idle"])

\* Exception e (not a cancellation) leaves _refresh: _update_loop logs it
\* and sleeps 5 s (lines 159-161); async_config_entry_first_refresh lets it
\* through to its caller without starting the loop.
RefreshRaised(s, t, e) ==
    IF s.refresh[t] = "loop"
    THEN IF Caught("update_loop", e)
         THEN [ResetSweep(s, t) EXCEPT !.pc[t] = "loop_recover"]
         ELSE LoopExit(s, t)
    ELSE [ResetSweep(s, t) EXCEPT !.pc[t] = "idle"]

\* The fan-out to the data-update listeners (lines 194-199).
NotifyUpdate(s) ==
    LET r == CallListeners(s.listeners, "refresh_notify")
    IN [s EXCEPT !.update_note = [value |-> "update", to |-> s.listeners,
                                  called |-> r.called, escaped |-> r.escaped]]

\* Fault variant of SweepEnd: the ReadingSet is replaced, no listener is
\* called.
SweepEndSilent(s, t) ==
    RefreshReturn([s EXCEPT !.sensor_readings = s.new_readings[t],
                            !.sweep = [state |-> "done", task |-> t,
                                       ok |-> {n \in Names :
                                                s.outcome[t][n] = "ok"},
                                       failed |-> {n \in Names :
                                                s.outcome[t][n] = "failed"},
                                       prev |-> s.sensor_readings]], t)
\* Lines 191-199: the sweep is over, the ReadingSet is replaced and the
\* listeners are called.
SweepEnd(s, t) ==
    LET s1 == NotifyUpdate(
                [s EXCEPT !.sensor_readings = s.new_readings[t],
                          !.sweep = [state |-> "done", task |-> t,
                                     ok |-> {n \in Names :
                                              s.outcome[t][n] = "ok"},
                                     failed |-> {n \in Names :
                                              s.outcome[t][n] = "failed"},
                                     prev |-> s.sensor_readings]])
    IN IF s1.update_note.escaped /\ ~Caught("refresh", "ListenerError")
       THEN RefreshRaised(s1, t, "ListenerError")
       ELSE RefreshReturn(s1, t)

\* Top of `for sensor_name, sensor in sensors.items()`: the next sensor's
\* get_readings() is awaited, or the loop is exhausted.
NextSensor(s, t) ==
    IF s.todo[t] = {} THEN SweepEnd(s, t)
    ELSE LET n == First(s.todo[t])
         IN [s EXCEPT !.pc[t] = "reading",
                      !.sensor_name[t] = n,
                      !.todo[t] = @ \ {n}]

\* Lines 169-174: new_readings = {}, current_time = time.time(),
\* sensors = get_all_sensors().
SweepStart(s, t) ==
    NextSensor([s EXCEPT !.new_readings[t] = NoReadings,
                         !.outcome[t] = NoOutcome,
                         !.sweep_time[t] = s.now,
                         !.todo[t] = Keys(s.sensors)], t)

\* Fault variant of AfterEnsure: the sweep is made whatever ensure_connection
\* returned.
AfterEnsureSweepsAnyway(s, t, how) ==
    IF how \in {"live", "connected", "skipped", "failed"} THEN SweepStart(s, t)
    ELSE IF how = "raised" THEN RefreshRaised(s, t, "Exception")
    ELSE LoopExit(s, t)
\* `await self._connection_manager.ensure_connection()` at line 165 is over:
\* it returned a boolean, raised, or the task was cancelled inside it.
AfterEnsure(s, t, how) ==
    IF how \in {"live", "connected"} THEN SweepStart(s, t)
    ELSE IF how \in {"skipped", "failed"} THEN RefreshReturn(s, t)
    ELSE IF how = "raised" THEN RefreshRaised(s, t, "Exception")
    ELSE LoopExit(s, t)

\* The code that called ensure_connection runs on when the call is over.
Resume(s, t, how) ==
    Once(s, LAMBDA r : IF r.refresh[t] = "none" THEN r
                       ELSE AfterEnsure(r, t, how))

(* ------------------ segments of the manager's coroutines -------------- *)

\* self._notify_connection_listeners(connected)
Notify(s, connected) ==
    LET r == CallListeners(s.connection_listeners, "notify")
        v == IF connected THEN "true" ELSE "false"
    IN [s EXCEPT !.note = [value |-> v, to |-> s.connection_listeners,
                           called |-> r.called, escaped |-> r.escaped],
                 !.last_note = [l \in Listeners |->
                                 IF \E i \in DOMAIN r.called : r.called[i] = l
                                 THEN v ELSE s.last_note[l]]]

\* self._motors.clear(); self._sensors.clear()
ClearRegistries(s) ==
    [s EXCEPT !.motors = EmptyRegistry, !.sensors = EmptyRegistry]

\* Fault variant of LockFree: acquire never waits (no mutual exclusion).
LockFreeNoLock(s) == TRUE
\* asyncio.Lock.acquire takes the lock at once only when it is unlocked and
\* nobody is queued for it.
LockFree(s) == s.connection_lock = 0 /\ s.lock_waiters = <<>>

\* Fault variant of ShouldSkip: the backoff window is never honoured.
ShouldSkipNoWindow(t_now, last, backoff) == (t_now - last) < 0
\* if (current_time - self._last_connection_attempt) < self._backoff_time
ShouldSkip(t_now, last, backoff) == (t_now - last) < backoff

\* min(30, 2 ** self._connection_attempts)
NextBackoff(attempts) == Min(MaxBackoff, 2 ^ attempts)

\* ensure_connection returns `how` and leaves "async with": the frame is
\* dropped and the lock released, and its caller runs on.
Return(s, t, how) ==
    LET ok == how \in {"live", "connected"}
        owner == "connect" \in s.requests[t]
    IN Resume([s EXCEPT
          !.pc[t] = "idle",
          !.ret = [task |-> t, how |-> how, requests |-> s.requests[t],
                   in_window |-> s.in_window[t], sess |-> s.sess[t],
                   joined |-> s.joined[t]],
          !.requests[t] = {},
          !.in_window[t] = FALSE,
          !.sess[t] = NoSession,
          !.connection_lock = 0,
          !.current_time[t] = 0,
          !.component_name[t] = EndOfList,
          !.idx[t] = 0,
          !.handle[t] = NoSession,
          !.via[t] = "none",
          !.fail_streak = IF ok THEN 0 ELSE @,
          !.joined = [u \in Tasks |->
                        IF u = t THEN "none"
                        ELSE IF owner /\ s.joined[u] = "pending"
                        THEN (IF ok THEN "true" ELSE "false")
                        ELSE s.joined[u]]], t, how)

\* An exception leaves ensure_connection: "async with" releases the lock.
Raise(s, t) ==
    Return([s EXCEPT !.scan = IF @.state = "running" /\ s.via[t] # "none"
                               THEN NoScan ELSE @],
           t, "raised")

\* Lines 75-82 of ensure_connection, after _connect returned `success`.
FinishReconnect(s, t, success) ==
    LET s1 == IF success THEN s
              ELSE [s EXCEPT
                      !.connection_attempts = @ + 1,
                      !.backoff_time = NextBackoff(s.connection_attempts + 1),
                      !.fail_streak = @ + 1]
        s2 == [s1 EXCEPT !.last_connection_attempt = s.current_time[t]]
    IN Return(s2, t, IF success THEN "connected" ELSE "failed")

\* The except branches of _connect: the session reference is dropped (it is
\* not closed), the registries are cleared, the listeners are told False and
\* _connect returns False.
ConnectFailed(s, t) ==
    LET s1 == Notify(
                ClearRegistries(
                  [s EXCEPT !.robot = NoSession,
                            !.scan = IF @.state = "running" THEN NoScan ELSE @]),
                FALSE)
    IN IF s1.note.escaped THEN Raise(s1, t)
       ELSE FinishReconnect(s1, t, FALSE)

\* Exception e is raised inside the try statement of _connect.
ConnectExcept(s, t, e) ==
    IF Caught("connect", e) THEN ConnectFailed(s, t) ELSE Raise(s, t)

\* self._motors[component_name] = motor (line 167)
AddMotor(s, t) == [s EXCEPT !.motors[s.component_name[t]] = s.handle[t]]

\* Fault variant of AddSensor: a sensor is filed with the motors.
AddSensorAsMotor(s, t) == [s EXCEPT !.motors[s.component_name[t]] = s.handle[t]]
\* self._sensors[component_name] = sensor (line 180)
AddSensor(s, t) == [s EXCEPT !.sensors[s.component_name[t]] = s.handle[t]]

\* A probe of the resource at hand has failed; late: by running into its
\* 5 s timeout.  An answer or an error that is not a timeout is taken as
\* arriving at once.
ProbeFailed(s, t, late) ==
    [s EXCEPT
       !.scan.waited = IF late /\ s.via[t] = "connect"
                       THEN Min(DiscoverBudget, @ + ProbeTimeout) ELSE @]

\* A probe ("motor" or "sensor") of the resource at hand has answered.
Probed(s, t, probe) ==
    [s EXCEPT !.scan.log = @ \cup {<<s.component_name[t], probe>>}]

\* _discover_components returned to its caller: line 63 of ensure_connection,
\* or lines 114-116 of _connect, where the listeners are told True.
DiscoverReturn(s, t, caller) ==
    IF caller = "probe" THEN Return(s, t, "live")
    ELSE LET s1 == Notify(s, TRUE)
         IN IF s1.note.escaped THEN ConnectExcept(s1, t, "ListenerError")
            ELSE FinishReconnect(s1, t, TRUE)

\* Exception e leaves the loop body of _discover_components: line 189 logs
\* it and the discovery returns with the scan cut short.
DiscoverExcept(s, t, e) ==
    IF Caught("discover", e)
    THEN DiscoverReturn([s EXCEPT !.scan = NoScan], t, s.via[t])
    ELSE IF s.via[t] = "connect" THEN ConnectExcept(s, t, e)
         ELSE Raise(s, t)

\* The for loop of _discover_components is exhausted (line 187).
DiscoverEnd(s, t) ==
    DiscoverReturn(
        [s EXCEPT !.discovered = @ \cup {s.scan.robot},
                  !.scan.state = "done",
                  !.scan.post = <<s.motors, s.sensors>>],
        t, s.via[t])

\* Top of the for loop at position i, where the list yields item (a name,
\* or its end).  Motor.from_robot(self._robot, name) and
\* Sensor.from_robot(self._robot, name) raise without suspending when
\* self._robot is None, so every remaining resource is skipped in this
\* segment; otherwise motor.get_properties() is awaited.
NextResource(s, t, i, item) ==
    IF i > MaxResources \/ item = EndOfList
    THEN DiscoverEnd(s, t)
    ELSE IF s.robot = NoSession
    THEN IF /\ Caught("motor_probe", "AttributeError")
            /\ Caught("sensor_probe", "AttributeError")
         THEN DiscoverEnd(s, t)
         ELSE DiscoverExcept(s, t, "AttributeError")
    ELSE [s EXCEPT !.pc[t] = "probe_motor",
                   !.idx[t] = i,
                   !.component_name[t] = item,
                   !.handle[t] = s.robot,
                   !.requests[t] = @ \cup {"discover"}]

\* _discover_components called from `caller`; item is the first element of
\* robot.resource_names.
DiscoverStart(s, t, caller, item) ==
    IF s.robot = NoSession THEN DiscoverReturn(s, t, caller)
    ELSE NextResource(
           ClearRegistries(
             [s EXCEPT !.via[t] = caller,
                       !.scan = [NoScan EXCEPT
                                   !.state = "running",
                                   !.robot = s.robot,
                                   !.pre = <<s.motors, s.sensors>>]]),
           t, 1, item)

\* _connect up to `await asyncio.wait_for(RobotClient.at_address(...), 10.0)`
ConnectStart(s, t) ==
    [s EXCEPT !.pc[t] = "connecting",
              !.requests[t] = @ \cup {"connect"},
              !.connect_at = s.now]

\* _disconnect up to `await self._robot.close()`, or straight through it
\* into _connect when no session is held.
DisconnectStart(s, t) ==
    IF s.robot # NoSession
    THEN [s EXCEPT !.pc[t] = "closing",
                   !.handle[t] = s.robot,
                   !.open_sessions = @ \ {s.robot},
                   !.requests[t] = @ \cup {"close"}]
    ELSE ConnectStart(s, t)

\* Lines 65-73 of ensure_connection: the liveness test has failed.
ReconnectCheck(s, t) ==
    LET s1 == [s EXCEPT
                 !.current_time[t] = s.now,
                 !.in_window[t] =
                     (s.now - s.last_connection_attempt) < s.backoff_time]
    IN IF ShouldSkip(s.now, s.last_connection_attempt, s.backoff_time)
       THEN Return(s1, t, "skipped")
       ELSE DisconnectStart(s1, t)

\* The finally clause of _disconnect (lines 200-204).
DisconnectFinally(s) ==
    Notify(ClearRegistries([s EXCEPT !.robot = NoSession]), FALSE)

\* The body of "async with self._connection_lock", entered by task t:
\* _test_connection returns False at once without a session, else awaits
\* self._robot.get_version().
EnsureBody(s, t) ==
    LET s1 == [s EXCEPT !.connection_lock = t]
    IN IF s1.robot = NoSession
       THEN ReconnectCheck(s1, t)
       ELSE [s1 EXCEPT !.pc[t] = "probe",
                       !.handle[t] = s1.robot,
                       !.requests[t] = @ \cup {"probe"}]

(* ------------------------------ actions ------------------------------- *)

\* ensure_connection is called by task t: it takes the lock and runs on, or
\* queues for it.
EnsureCall(s, t) ==
    LET s0 == [s EXCEPT
                 !.shut_down = FALSE,
                 !.joined[t] = IF \E u \in Tasks : s.pc[u] = "connecting"
                               THEN "pending" ELSE "none"]
    IN IF LockFree(s0)
       THEN EnsureBody(s0, t)
       ELSE [s0 EXCEPT !.pc[t] = "wait_lock",
                       !.lock_waiters = Append(@, t)]

\* A task calls ensure_connection.
Call(t) ==
    /\ pc[t] = "idle"
    /\ Commit(EnsureCall(Fresh, t))

\* The first queued task is woken once the lock is released.
Acquire(t) ==
    /\ pc[t] = "wait_lock"
    /\ connection_lock = 0
    /\ lock_waiters # <<>> /\ Head(lock_waiters) = t
    /\ Commit(EnsureBody([Fresh EXCEPT !.lock_waiters = Tail(@)], t))

\* get_version() answered in time (ok), or failed or timed out after 5 s.
ProbeDone(t, ok, item) ==
    /\ pc[t] = "probe"
    /\ IF ok
       THEN LET s1 == [Fresh EXCEPT !.connection_attempts = 0,
                                  !.backoff_time = MinBackoff,
                                  !.sess[t] = handle[t]]
            IN IF Keys(motors) = {} /\ Keys(sensors) = {}
               THEN Commit(DiscoverStart(s1, t, "probe", item))
               ELSE Commit(Return(s1, t, "live"))
       ELSE \E e \in TransportErrors :
              IF Caught("test_connection", e)
              THEN Commit(ReconnectCheck(Fresh, t))
              ELSE Commit(Raise(Fresh, t))

\* self._robot.close() returned or raised: the finally clause of _disconnect
\* runs and _connect starts.
CloseDone(t) ==
    /\ pc[t] = "closing"
    /\ \E e \in {"none"} \cup TransportErrors :
         LET s1 == DisconnectFinally([Fresh EXCEPT !.handle[t] = NoSession])
         IN IF (e # "none" /\ ~Caught("disconnect", e)) \/ s1.note.escaped
            THEN Commit(Raise(s1, t))
            ELSE Commit(ConnectStart(s1, t))

\* RobotClient.at_address returned a session: it is stored and the discovery
\* is handed to asyncio.wait_for(..., 15.0).
ConnectOk(t) ==
    /\ pc[t] = "connecting"
    /\ sessions_made < MaxSessions
    /\ LET sid == sessions_made + 1
       IN Commit([Fresh EXCEPT !.robot = sid,
                             !.sessions_made = sid,
                             !.open_sessions = @ \cup {sid},
                             !.sess[t] = sid,
                             !.pc[t] = "discover_scheduled"])

\* RobotClient.at_address raised, or timed out after 10 s.
ConnectFail(t) ==
    /\ pc[t] = "connecting"
    /\ \E e \in TransportErrors : Commit(ConnectExcept(Fresh, t, e))

\* The discovery wrapped by wait_for starts to run.
DiscoverBegin(t, item) ==
    /\ pc[t] = "discover_scheduled"
    /\ Commit(DiscoverStart(Fresh, t, "connect", item))

\* motor.get_properties() answered (ok): the resource is a motor.  Otherwise
\* (error or 5 s timeout) the sensor is tried.
MotorProbeDone(t, ok, item) ==
    /\ pc[t] = "probe_motor"
    /\ IF ok
       THEN Commit(NextResource(AddMotor(Probed(Fresh, t, "motor"), t),
                                t, idx[t] + 1, item))
       ELSE \E e \in TransportErrors :
              LET s1 == ProbeFailed(Fresh, t, e = "TimeoutError")
              IN IF ~Caught("motor_probe", e)
                 THEN Commit(DiscoverExcept(s1, t, e))
                 ELSE IF robot # NoSession
                 THEN Commit([s1 EXCEPT !.pc[t] = "probe_sensor",
                                        !.handle[t] = robot])
                 ELSE IF Caught("sensor_probe", "AttributeError")
                 THEN Commit(NextResource(s1, t, idx[t] + 1, item))
                 ELSE Commit(DiscoverExcept(s1, t, "AttributeError"))

\* sensor.get_readings() answered (ok), or failed or timed out.
SensorProbeDone(t, ok, item) ==
    /\ pc[t] = "probe_sensor"
    /\ IF ok
       THEN Commit(NextResource(AddSensor(Probed(Fresh, t, "sensor"), t),
                                t, idx[t] + 1, item))
       ELSE \E e \in TransportErrors :
              LET s1 == ProbeFailed(Fresh, t, e = "TimeoutError")
              IN IF Caught("sensor_probe", e)
                 THEN Commit(NextResource(s1, t, idx[t] + 1, item))
                 ELSE Commit(DiscoverExcept(s1, t, e))

\* The 15 s of wait_for(self._discover_components(), 15.0) run out while a
\* probe is awaited: the scan is cancelled and _connect takes its
\* TimeoutError branch.  The budget was set before the scan's first probe,
\* so it runs out before the 5 s of a probe started 10 s into the scan.
DiscoverTimeout(t) ==
    /\ pc[t] \in {"probe_motor", "probe_sensor"}
    /\ via[t] = "connect"
    /\ scan.waited + ProbeTimeout >= DiscoverBudget
    /\ Commit(ConnectExcept(Fresh, t, "TimeoutError"))

\* shutdown() up to `await self._robot.close()` in _disconnect, or, when no
\* session is held, through to its end, where the listeners are cleared.
ShutdownStart(s, t) ==
    IF s.robot # NoSession
    THEN [s EXCEPT !.pc[t] = "shutdown_closing",
                   !.handle[t] = s.robot,
                   !.open_sessions = @ \ {s.robot}]
    ELSE [s EXCEPT !.connection_listeners = <<>>]

\* An exception leaves shutdown(): close() raised e and _disconnect did not
\* catch it, or a listener's exception left the finally clause (s1 is the
\* state after that clause).
ShutdownEscapes(s1, e) ==
    (e # "none" /\ ~Caught("disconnect", e)) \/ s1.note.escaped

\* close() of shutdown's _disconnect returned, or raised e: the finally
\* clause runs and, unless an exception escapes, the listeners are cleared.
ShutdownFinish(s, t, e) ==
    LET s1 == DisconnectFinally([s EXCEPT !.pc[t] = "idle",
                                          !.handle[t] = NoSession])
    IN IF ShutdownEscapes(s1, e) THEN s1
       ELSE [s1 EXCEPT !.connection_listeners = <<>>]

\* A discovery that wait_for has scheduled starts on the next iteration of
\* the event loop, before the answer to a close() issued on the session just
\* connected can arrive.
CloseAnswerable(t) ==
    \A u \in Tasks : pc[u] = "discover_scheduled" => handle[t] # sessions_made

\* shutdown() is called.
Shutdown(t) ==
    /\ pc[t] = "idle"
    /\ Commit(ShutdownStart(Fresh, t))

\* close() of shutdown's _disconnect returned or raised.
ShutdownCloseDone(t) ==
    /\ pc[t] = "shutdown_closing"
    /\ CloseAnswerable(t)
    /\ \E e \in {"none"} \cup TransportErrors :
         Commit(ShutdownFinish(Fresh, t, e))

\* add_connection_listener(listener): append
AddListener(l) ==
    /\ Len(connection_listeners) < NumListeners
    /\ Commit([Fresh EXCEPT !.connection_listeners = Append(@, l)])

\* list.remove: the list without the first occurrence of l
RECURSIVE Remove(_, _)
Remove(list, l) ==
    IF list = <<>> THEN <<>>
    ELSE IF Head(list) = l THEN Tail(list)
    ELSE <<Head(list)>> \o Remove(Tail(list), l)

\* remove_connection_listener(listener)
RemoveListener(l) ==
    /\ \E i \in DOMAIN connection_listeners : connection_listeners[i] = l
    /\ Commit([Fresh EXCEPT !.connection_listeners = Remove(@, l)])

(* ------------------ ViamSensorCoordinator and unload ----------------- *)

\* Fault variant of FirstRefresh: the update loop is started before the
\* first refresh is awaited.
FirstRefreshAfterStart(t) ==
    /\ pc[t] = "idle"
    /\ update_task = "none"
    /\ unload = "none"
    /\ ~stopped
    /\ Commit(EnsureCall(StartUpdateLoop([Fresh EXCEPT !.refresh[t] = "first"]),
                         t))
\* async_config_entry_first_refresh(): _refresh runs in the calling task up
\* to the first await inside ensure_connection.  async_setup_entry calls it
\* once, on the coordinator it has just constructed (sensor.py:67).
FirstRefresh(t) ==
    /\ pc[t] = "idle"
    /\ update_task = "none"
    /\ unload = "none"
    /\ ~stopped
    /\ Commit(EnsureCall([Fresh EXCEPT !.refresh[t] = "first"], t))

\* asyncio.sleep(self._update_interval) is over in _update_loop: _refresh.
\* The interval is a configuration value; how long it is is left open.
LoopWake(t) ==
    /\ pc[t] = "loop_sleep"
    /\ Commit(EnsureCall([Fresh EXCEPT !.refresh[t] = "loop"], t))

\* Lines 176-179: the reading is stored in new_readings and the sensor's
\* timestamp is set to the instant the sweep started.
ReadOk(s, t, n) ==
    [s EXCEPT !.new_readings[t][n] = s.now,
              !.sensor_timestamps[n] = s.sweep_time[t],
              !.outcome[t][n] = "ok"]

\* Fault variant of ReadFailed: the timestamp is advanced all the same.
ReadFailedStamps(s, t, n) ==
    [s EXCEPT !.new_readings[t][n] = s.sensor_readings[n],
              !.sensor_timestamps[n] = s.sweep_time[t],
              !.outcome[t][n] = "failed"]
\* Fault variant of ReadFailed: nothing is carried forward.
ReadFailedNoCarry(s, t, n) ==
    [s EXCEPT !.outcome[t][n] = "failed"]
\* Lines 180-189: the reading of the published ReadingSet, if there is one,
\* is carried forward; the timestamp is not touched.
ReadFailed(s, t, n) ==
    [s EXCEPT !.new_readings[t][n] = s.sensor_readings[n],
              !.outcome[t][n] = "failed"]

\* sensor.get_readings() answered within 5 s (ok), failed or timed out
\* (lines 176-189).
ReadDone(t, ok) ==
    /\ pc[t] = "reading"
    /\ LET n == sensor_name[t]
       IN IF ok
          THEN Commit(NextSensor(ReadOk(Fresh, t, n), t))
          ELSE \E e \in TransportErrors :
                 IF Caught("read", e)
                 THEN Commit(NextSensor(ReadFailed(Fresh, t, n), t))
                 ELSE IF Caught("refresh", e)
                 THEN Commit(RefreshReturn(Fresh, t))
                 ELSE Commit(RefreshRaised(Fresh, t, e))

\* add_listener(listener) of the coordinator
AddUpdateListener(l) ==
    /\ Len(listeners) < NumListeners
    /\ Commit([Fresh EXCEPT !.listeners = Append(@, l)])

\* remove_listener(listener) of the coordinator
RemoveUpdateListener(l) ==
    /\ \E i \in DOMAIN listeners : listeners[i] = l
    /\ Commit([Fresh EXCEPT !.listeners = Remove(@, l)])

\* Fault variant of Awaited: async_shutdown does not wait for the task.
AwaitedAtOnce(task) == TRUE
\* `await self._update_task` completes when the task is done.
Awaited(task) == task = "done"

\* async_shutdown() (lines 224-231): cancel the loop task and await it; the
\* CancelledError is thrown into the task at the await it is suspended in
\* the next time the task is run.
AsyncShutdown(t) ==
    /\ pc[t] = "idle"
    /\ t # LoopTask
    /\ IF update_task = "running"
       THEN /\ pc[LoopTask] # "cancelling"
            /\ Commit([Fresh EXCEPT !.cancel_at = pc[LoopTask],
                                    !.pc[LoopTask] = "cancelling",
                                    !.pc[t] = "await_update_task"])
       ELSE Commit([Fresh EXCEPT !.stopped = TRUE])

\* `await self._update_task` of async_shutdown returns.
AsyncShutdownDone(t) ==
    /\ pc[t] = "await_update_task"
    /\ Awaited(update_task)
    /\ Commit([Fresh EXCEPT !.pc[t] = "idle", !.stopped = TRUE])

\* The cancelled loop task is run: CancelledError is raised at the await it
\* was suspended in.  No except clause below _update_loop matches it (it is
\* not an Exception); finally clauses and "async with" run on the way out.
CancelDelivered(t) ==
    /\ pc[t] = "cancelling"
    /\ LET s0 == Fresh
       IN CASE cancel_at \in {"loop_sleep", "loop_recover", "reading"} ->
                 Commit(LoopExit(s0, t))
            [] cancel_at = "wait_lock" ->
                 Commit(LoopExit([s0 EXCEPT !.lock_waiters = Remove(@, t),
                                            !.joined[t] = "none"], t))
            [] cancel_at = "closing" ->
                 Commit(Return(DisconnectFinally(
                                 [s0 EXCEPT !.handle[t] = NoSession]),
                               t, "cancelled"))
            [] OTHER ->
                 Commit(Return([s0 EXCEPT !.scan = IF @.state = "running"
                                                   THEN NoScan ELSE @],
                               t, "cancelled"))

\* Lines 68-76 of async_unload_entry, after the manager's shutdown() has
\* returned: without a Data API client there is nothing else to shut down;
\* the platforms are unloaded, where every ViamSensor entity takes its
\* listener off the coordinator (async_will_remove_from_hass).
UnloadRest(s) ==
    [s EXCEPT !.shut_down = TRUE, !.unload = "done", !.listeners = <<>>]

\* async_unload_entry (lines 61-67): the manager's shutdown() is awaited.
UnloadEntry(t) ==
    /\ pc[t] = "idle"
    /\ unload = "none"
    /\ LET s1 == ShutdownStart([Fresh EXCEPT !.unload = "closing"], t)
       IN IF s1.pc[t] = "shutdown_closing" THEN Commit(s1)
          ELSE Commit(UnloadRest(s1))

\* close() of the shutdown() awaited by async_unload_entry returned or
\* raised; an exception that leaves shutdown() leaves async_unload_entry.
UnloadCloseDone(t) ==
    /\ pc[t] = "shutdown_closing"
    /\ unload = "closing"
    /\ CloseAnswerable(t)
    /\ \E e \in {"none"} \cup TransportErrors :
         LET s1 == ShutdownFinish(Fresh, t, e)
         IN IF ShutdownEscapes(s1, e)
            THEN Commit([s1 EXCEPT !.unload = "failed"])
            ELSE Commit(UnloadRest(s1))

\* Fault variant of is_sensor_stale: stale from the threshold on.
is_sensor_stale_at_threshold(ts, n, t_now, interval) ==
    IF ts[n] = Absent THEN TRUE
    ELSE (t_now - ts[n]) >= StaleFactor * interval
\* is_sensor_stale(sensor_name), lines 213-222, on Timestamp Table ts at
\* instant t_now with update interval `interval`.
is_sensor_stale(ts, n, t_now, interval) ==
    IF ts[n] = Absent THEN TRUE
    ELSE (t_now - ts[n]) > StaleFactor * interval

\* An entity asks whether sensor n is stale.
IsSensorStale(n) ==
    /\ Commit([Fresh EXCEPT !.stale =
                 [name |-> n,
                  value |-> is_sensor_stale(sensor_timestamps, n, now,
                                            update_interval)]])

\* get_motor(name) / get_sensor(name): dict.get
get_motor(name) == motors[name]
get_sensor(name) == sensors[name]

\* get_all_motors(): a copy of the dict, taken by a task that is running
\* (not suspended inside the manager).
GetAllMotors(t) ==
    /\ pc[t] = "idle"
    /\ scan.state = "running"
    /\ Commit([Fresh EXCEPT
                 !.scan.obs = <<"motors", [n \in Names |-> get_motor(n)]>>])

\* get_all_sensors()
GetAllSensors(t) ==
    /\ pc[t] = "idle"
    /\ scan.state = "running"
    /\ Commit([Fresh EXCEPT
                 !.scan.obs = <<"sensors", [n \in Names |-> get_sensor(n)]>>])

\* A second passes on the wall clock.
Tick ==
    /\ now < MaxTime
    /\ Commit([Fresh EXCEPT !.now = @ + 1])

\* The same clock, over the longer horizon of the single-task runs.
SeqTick ==
    /\ now < SeqMaxTime
    /\ Commit([Fresh EXCEPT !.now = @ + 1])

Next ==
    \/ \E t \in Tasks : Call(t)
    \/ \E t \in Tasks : Acquire(t)
    \/ \E t \in Tasks, ok \in BOOLEAN, item \in NextItems : ProbeDone(t, ok, item)
    \/ \E t \in Tasks : CloseDone(t)
    \/ \E t \in Tasks : ConnectOk(t)
    \/ \E t \in Tasks : ConnectFail(t)
    \/ \E t \in Tasks, item \in NextItems : DiscoverBegin(t, item)
    \/ \E t \in Tasks, ok \in BOOLEAN, item \in NextItems : MotorProbeDone(t, ok, item)
    \/ \E t \in Tasks, ok \in BOOLEAN, item \in NextItems : SensorProbeDone(t, ok, item)
    \/ \E t \in Tasks : DiscoverTimeout(t)
    \/ \E t \in Tasks : Shutdown(t)
    \/ \E t \in Tasks : ShutdownCloseDone(t)
    \/ \E t \in Tasks : GetAllMotors(t)
    \/ \E t \in Tasks : GetAllSensors(t)
    \/ Tick

\* Tasks interleaving on one manager.
Spec == Init /\ [][Next]_vars

\* One task calling ensure_connection and shutdown one after the other,
\* over a longer stretch of time.
SeqTasks == {1}

NextSeq ==
    \/ \E t \in SeqTasks : Call(t)
    \/ \E t \in SeqTasks, ok \in BOOLEAN, item \in NextItems : ProbeDone(t, ok, item)
    \/ \E t \in SeqTasks : CloseDone(t)
    \/ \E t \in SeqTasks : ConnectOk(t)
    \/ \E t \in SeqTasks : ConnectFail(t)
    \/ \E t \in SeqTasks, item \in NextItems : DiscoverBegin(t, item)
    \/ \E t \in SeqTasks, ok \in BOOLEAN, item \in NextItems : MotorProbeDone(t, ok, item)
    \/ \E t \in SeqTasks, ok \in BOOLEAN, item \in NextItems : SensorProbeDone(t, ok, item)
    \/ \E t \in SeqTasks : DiscoverTimeout(t)
    \/ \E t \in SeqTasks : Shutdown(t)
    \/ \E t \in SeqTasks : ShutdownCloseDone(t)
    \/ SeqTick

SpecSeq == Init /\ [][NextSeq]_vars

\* One task calling the manager while entities add and remove listeners.
NextListen ==
    \/ \E t \in SeqTasks : Call(t)
    \/ \E t \in SeqTasks, ok \in BOOLEAN, item \in NextItems : ProbeDone(t, ok, item)
    \/ \E t \in SeqTasks : CloseDone(t)
    \/ \E t \in SeqTasks : ConnectOk(t)
    \/ \E t \in SeqTasks : ConnectFail(t)
    \/ \E t \in SeqTasks, item \in NextItems : DiscoverBegin(t, item)
    \/ \E t \in SeqTasks, ok \in BOOLEAN, item \in NextItems : MotorProbeDone(t, ok, item)
    \/ \E t \in SeqTasks, ok \in BOOLEAN, item \in NextItems : SensorProbeDone(t, ok, item)
    \/ \E t \in SeqTasks : DiscoverTimeout(t)
    \/ \E t \in SeqTasks : Shutdown(t)
    \/ \E t \in SeqTasks : ShutdownCloseDone(t)
    \/ Tick
    \/ \E l \in Listeners : AddListener(l)
    \/ \E l \in Listeners : RemoveListener(l)

SpecListen == Init /\ [][NextListen]_vars

\* Two tasks calling ensure_connection, and nothing else.
NextLive ==
    \/ \E t \in Tasks : Call(t)
    \/ \E t \in Tasks : Acquire(t)
    \/ \E t \in Tasks, ok \in BOOLEAN, item \in NextItems : ProbeDone(t, ok, item)
    \/ \E t \in Tasks : CloseDone(t)
    \/ \E t \in Tasks : ConnectOk(t)
    \/ \E t \in Tasks : ConnectFail(t)
    \/ \E t \in Tasks, item \in NextItems : DiscoverBegin(t, item)
    \/ \E t \in Tasks, ok \in BOOLEAN, item \in NextItems : MotorProbeDone(t, ok, item)
    \/ \E t \in Tasks, ok \in BOOLEAN, item \in NextItems : SensorProbeDone(t, ok, item)
    \/ \E t \in Tasks : DiscoverTimeout(t)
    \/ Tick

\* What the event loop and the timeouts guarantee: a task whose lock is free
\* is resumed; an await wrapped in asyncio.wait_for ends, with an answer or
\* with TimeoutError (get_version 5 s, at_address 10 s, get_properties and
\* get_readings 5 s); a scheduled discovery starts.  `await
\* self._robot.close()` (line 196) is not wrapped in wait_for: nothing makes
\* it end, so CloseDone gets no fairness.
\* At most one of these steps is enabled for a task at a time, so one
\* fairness condition per task covers them all.
Progress(t) ==
    \/ Acquire(t)
    \/ \E ok \in BOOLEAN, item \in NextItems : ProbeDone(t, ok, item)
    \/ ConnectOk(t)
    \/ ConnectFail(t)
    \/ \E item \in NextItems : DiscoverBegin(t, item)
    \/ \E ok \in BOOLEAN, item \in NextItems : MotorProbeDone(t, ok, item)
    \/ \E ok \in BOOLEAN, item \in NextItems : SensorProbeDone(t, ok, item)

Fairness == \A t \in Tasks : WF_vars(Progress(t))

SpecLive == Init /\ [][NextLive]_vars /\ Fairness

\* C17: every call of ensure_connection eventually returns.
C17_EveryCallReturns ==
    \A t \in Tasks : (pc[t] # "idle") ~> (pc[t] = "idle")

\* The coordinator alone on the manager: the first refresh in the setup
\* task, then the update loop, while entities subscribe to the coordinator
\* and the clock runs.
NextPoll ==
    \/ FirstRefresh(SetupTask)
    \/ LoopWake(LoopTask)
    \/ \E t \in Tasks, ok \in BOOLEAN, item \in NextItems : ProbeDone(t, ok, item)
    \/ \E t \in Tasks : CloseDone(t)
    \/ \E t \in Tasks : ConnectOk(t)
    \/ \E t \in Tasks : ConnectFail(t)
    \/ \E t \in Tasks, item \in NextItems : DiscoverBegin(t, item)
    \/ \E t \in Tasks, ok \in BOOLEAN, item \in NextItems : MotorProbeDone(t, ok, item)
    \/ \E t \in Tasks, ok \in BOOLEAN, item \in NextItems : SensorProbeDone(t, ok, item)
    \/ \E t \in Tasks : DiscoverTimeout(t)
    \/ \E t \in Tasks, ok \in BOOLEAN : ReadDone(t, ok)
    \/ \E l \in Listeners : AddUpdateListener(l)
    \/ \E l \in Listeners : RemoveUpdateListener(l)
    \/ Tick

SpecPoll == Init /\ [][NextPoll]_vars

\* The step is one of task t in the for loop of _refresh: the read it
\* awaited is over.
ReadStep(t) ==
    /\ pc[t] = "reading"
    /\ pc'[t] # "reading" \/ sensor_name'[t] # sensor_name[t]

\* C21: in a cycle every sensor of the manager is read, whatever the
\* outcome of the reads before it: after a read, failed or not, the next
\* sensor is read, and after the last one the cycle publishes a ReadingSet
\* that holds the new reading of every sensor whose read succeeded.
C21_ReadsIndependent ==
    [][\A t \in Tasks : ReadStep(t) =>
         IF todo[t] # {}
         THEN pc'[t] = "reading" /\ sensor_name'[t] \in todo[t]
         ELSE /\ sweep'.state = "done"
              /\ sweep'.task = t
              /\ sweep'.ok \cup sweep'.failed = Keys(sensors)
              /\ \A n \in sweep'.ok :
                    /\ sensor_readings'[n] # Absent
                    /\ sensor_readings'[n] >= sweep_time[t]
                    /\ sensor_readings'[n] = new_readings[t][n]
                          \/ n = sensor_name[t]]_vars

\* A cycle has ended in which the first sensor failed and the second one
\* was read and published.
C21_Witness ==
    /\ sweep.state = "done"
    /\ "a" \in sweep.failed
    /\ "b" \in sweep.ok
    /\ sensor_readings["b"] # Absent

\* The step is the end of a read of task t that failed or timed out.
ReadFailedStep(t) ==
    /\ ReadStep(t)
    /\ \/ outcome'[t][sensor_name[t]] = "failed"
       \/ sweep'.state = "done" /\ sensor_name[t] \in sweep'.failed

\* The step is the end of a read of task t that succeeded.
ReadOkStep(t) ==
    /\ ReadStep(t)
    /\ \/ outcome'[t][sensor_name[t]] = "ok"
       \/ sweep'.state = "done" /\ sensor_name[t] \in sweep'.ok

\* C22: the ReadingSet a cycle publishes holds, for every sensor whose read
\* failed or timed out, the reading of the ReadingSet published before (none
\* if there was none), and a failed read leaves the Timestamp Table as it is.
C22_FailedReadCarriesForward ==
    [][/\ sweep'.state = "done" =>
            \A n \in sweep'.failed : sensor_readings'[n] = sweep'.prev[n]
       /\ \A t \in Tasks : ReadFailedStep(t) =>
            sensor_timestamps' = sensor_timestamps]_vars

\* A cycle has ended in which a sensor read in an earlier second failed: its
\* old reading is published again under its old timestamp.
C22_Witness ==
    /\ sweep.state = "done"
    /\ \E n \in sweep.failed :
         /\ sweep.prev[n] # Absent
         /\ sensor_readings[n] = sweep.prev[n]
         /\ sensor_timestamps[n] < now

\* C23: a sensor's timestamp changes only in the step in which a read of
\* that sensor succeeds, and then it does not decrease.
C23_TimestampOnlyOnSuccess ==
    [][\A n \in Names :
         sensor_timestamps'[n] # sensor_timestamps[n] =>
           /\ \E t \in Tasks : ReadOkStep(t) /\ sensor_name[t] = n
           /\ sensor_timestamps'[n] > sensor_timestamps[n]]_vars

\* A sensor read successfully in two cycles: its timestamp has advanced.
C23_Witness ==
    /\ sweep.state = "done"
    /\ \E n \in sweep.ok :
         /\ sweep.prev[n] # Absent
         /\ sensor_timestamps[n] > sweep.prev[n]

\* C24: the published ReadingSet is replaced only in the step that ends a
\* sweep, after every sensor was attempted; that step calls each registered
\* data-update listener once, in order; listeners are called in no other
\* step; and a cycle whose ensure_connection returned true sweeps, ending
\* at once when there is no sensor.
C24_PublishOncePerCycle ==
    [][/\ sensor_readings' # sensor_readings => sweep'.state = "done"
       /\ update_note'.value # "none" => sweep'.state = "done"
       /\ sweep'.state = "done" =>
            /\ sweep'.ok \cup sweep'.failed = Keys(sensors)
            /\ update_note'.value = "update"
            /\ update_note'.called = listeners
            /\ sensor_readings' =
                 [n \in Names |->
                    IF n \in Keys(sensors) /\ n # sensor_name[sweep'.task]
                    THEN new_readings[sweep'.task][n]
                    ELSE IF n \notin Keys(sensors) THEN Absent
                    ELSE sensor_readings'[n]]
       /\ ret'.how \in {"live", "connected"} =>
            pc'[ret'.task] = "reading" \/ sweep'.state = "done"]_vars

\* A sweep over two sensors has ended with two listeners registered, both
\* called once.
C24_Witness ==
    /\ sweep.state = "done"
    /\ Cardinality(sweep.ok \cup sweep.failed) = 2
    /\ Len(update_note.to) = 2
    /\ update_note.called = update_note.to

\* C25: a cycle whose ensure_connection returns false reads no sensor,
\* leaves sensor_readings and sensor_timestamps as they were and calls no
\* listener.
C25_NoSweepWithoutConnection ==
    [][ret'.how \in {"skipped", "failed"} =>
         /\ sensor_readings' = sensor_readings
         /\ sensor_timestamps' = sensor_timestamps
         /\ update_note'.value = "none"
         /\ sweep'.state = "none"
         /\ pc'[ret'.task] # "reading"
         /\ refresh'[ret'.task] = "none"]_vars

\* A cycle has just ended on a false return while a reading published by
\* an earlier cycle is kept, with listeners registered.
C25_Witness ==
    /\ ret.how \in {"skipped", "failed"}
    /\ ret.task = LoopTask
    /\ listeners # <<>>
    /\ \E n \in Names : sensor_readings[n] # Absent

\* C28: a sensor that has a reading in the published ReadingSet has one
\* in every later ReadingSet.
C28_ReadingPersists ==
    [][\A n \in Names :
         sensor_readings[n] # Absent => sensor_readings'[n] # Absent]_vars

\* The coordinator alone on the manager, without listeners.
NextLivePoll ==
    \/ FirstRefresh(SetupTask)
    \/ LoopWake(LoopTask)
    \/ \E t \in Tasks, ok \in BOOLEAN, item \in NextItems : ProbeDone(t, ok, item)
    \/ \E t \in Tasks : CloseDone(t)
    \/ \E t \in Tasks : ConnectOk(t)
    \/ \E t \in Tasks : ConnectFail(t)
    \/ \E t \in Tasks, item \in NextItems : DiscoverBegin(t, item)
    \/ \E t \in Tasks, ok \in BOOLEAN, item \in NextItems : MotorProbeDone(t, ok, item)
    \/ \E t \in Tasks, ok \in BOOLEAN, item \in NextItems : SensorProbeDone(t, ok, item)
    \/ \E t \in Tasks : DiscoverTimeout(t)
    \/ \E t \in Tasks, ok \in BOOLEAN : ReadDone(t, ok)
    \/ Tick

\* Besides the timed awaits of the manager: a sensor read ends, with an
\* answer or after 5 s (wait_for at line 176), and the sleep of the update
\* loop ends.  The first refresh is made when the platform is set up.
PollProgress(t) ==
    \/ Progress(t)
    \/ \E ok \in BOOLEAN : ReadDone(t, ok)
    \/ t = LoopTask /\ LoopWake(t)
    \/ t = SetupTask /\ FirstRefresh(t)

FairnessPoll == \A t \in Tasks : WF_vars(PollProgress(t))

SpecLivePoll == Init /\ [][NextLivePoll]_vars /\ FairnessPoll

\* C29: the update task, once created, stays alive, and every cycle it
\* starts comes to an end, back at the sleep from which the next cycle
\* starts.
C29_LoopKeepsPolling ==
    /\ [][update_task = "running" => update_task' = "running"]_vars
    /\ (update_task = "running") ~> (pc[LoopTask] = "loop_sleep")

StaleStamps == {Absent, 0, 1}
Intervals == {DefaultInterval - 1, DefaultInterval}
StaleFrom == StaleFactor * DefaultInterval - StaleMargin
StaleTo == StaleFactor * DefaultInterval + StaleMargin

InitStale ==
    /\ InitRest
    /\ now = StaleFrom
    /\ sensor_timestamps \in [Names -> StaleStamps]
    /\ update_interval \in Intervals

StaleTick ==
    /\ now < StaleTo
    /\ Commit([Fresh EXCEPT !.now = @ + 1])

NextStale ==
    \/ \E n \in Names : IsSensorStale(n)
    \/ StaleTick

SpecStale == InitStale /\ [][NextStale]_vars

\* C26: for a sensor with a timestamp t0, is_sensor_stale is true exactly
\* when now - t0 > 10 * update_interval; with interval 30 and t0 = 0 it is
\* false at 299 and 300 and true at 301.
C26_StaleThreshold ==
    stale.name # EndOfList /\ sensor_timestamps[stale.name] # Absent =>
        /\ stale.value <=>
              now - sensor_timestamps[stale.name] > 10 * update_interval
        /\ update_interval = 30 /\ sensor_timestamps[stale.name] = 0 =>
              /\ now \in {299, 300} => ~stale.value
              /\ now = 301 => stale.value

\* The call at the threshold itself: t0 = 0, interval 30, now 300.
C26_Witness ==
    /\ stale.name # EndOfList
    /\ sensor_timestamps[stale.name] = 0
    /\ update_interval = 30
    /\ now = 300
    /\ ~stale.value

\* C27: is_sensor_stale is false for a name without an entry in the
\* Timestamp Table.
C27_NotStaleBeforeFirstRead ==
    stale.name # EndOfList /\ sensor_timestamps[stale.name] = Absent =>
        ~stale.value

\* The completions of the network calls a task awaits inside the manager.
ManagerStep(t) ==
    \/ Acquire(t)
    \/ \E ok \in BOOLEAN, item \in NextItems : ProbeDone(t, ok, item)
    \/ CloseDone(t)
    \/ ConnectOk(t)
    \/ ConnectFail(t)
    \/ \E item \in NextItems : DiscoverBegin(t, item)
    \/ \E ok \in BOOLEAN, item \in NextItems : MotorProbeDone(t, ok, item)
    \/ \E ok \in BOOLEAN, item \in NextItems : SensorProbeDone(t, ok, item)
    \/ DiscoverTimeout(t)

\* A sensor coordinator polling through the manager: the setup task makes
\* the first refresh, which starts the update loop, and calls
\* ensure_connection as the cover entities do.
Polling ==
    \/ FirstRefresh(SetupTask)
    \/ Call(SetupTask)
    \/ LoopWake(LoopTask)
    \/ \E t \in Tasks : ManagerStep(t)
    \/ \E t \in Tasks, ok \in BOOLEAN : ReadDone(t, ok)

\* The clock of the shutdown runs.
CoordTick ==
    /\ now < StartTime + CoordTicks
    /\ Commit([Fresh EXCEPT !.now = @ + 1])

\* Polling, and the setup task shutting the coordinator down.
NextCoord ==
    \/ Polling
    \/ AsyncShutdown(SetupTask)
    \/ AsyncShutdownDone(SetupTask)
    \/ CancelDelivered(LoopTask)
    \/ CoordTick

SpecCoord == Init /\ [][NextCoord]_vars

\* C20: once async_shutdown has returned, the update task is not running
\* (it is done, or was never created), the loop task executes nothing, no
\* refresh cycle starts, and sensor_readings and sensor_timestamps are not
\* modified any more, wherever the cancellation reached the loop.
C20_ShutdownStopsLoop ==
    [][stopped =>
         /\ update_task # "running"
         /\ pc[LoopTask] = "idle"
         /\ update_task' = update_task
         /\ pc'[LoopTask] = "idle"
         /\ refresh' = refresh
         /\ sensor_readings' = sensor_readings
         /\ sensor_timestamps' = sensor_timestamps]_vars

\* async_shutdown has returned after cancelling the loop in the middle of a
\* sweep, with a sensor reading awaited and one sensor already written.
C20_Witness ==
    /\ stopped
    /\ update_task = "done"
    /\ cancel_at = "reading"
    /\ \E n \in Names : sensor_timestamps[n] > 0

\* The setup task makes the first refresh and unloads the config entry while
\* the update loop polls.  Nothing else calls ensure_connection here, and
\* shutdown() does not take the connection lock, so no call waits for it.
NextUnload ==
    \/ FirstRefresh(SetupTask)
    \/ LoopWake(LoopTask)
    \/ \E t \in Tasks, ok \in BOOLEAN, item \in NextItems : ProbeDone(t, ok, item)
    \/ \E t \in Tasks : CloseDone(t)
    \/ \E t \in Tasks : ConnectOk(t)
    \/ \E t \in Tasks : ConnectFail(t)
    \/ \E t \in Tasks, item \in NextItems : DiscoverBegin(t, item)
    \/ \E t \in Tasks, ok \in BOOLEAN, item \in NextItems : MotorProbeDone(t, ok, item)
    \/ \E t \in Tasks, ok \in BOOLEAN, item \in NextItems : SensorProbeDone(t, ok, item)
    \/ \E t \in Tasks : DiscoverTimeout(t)
    \/ \E t \in Tasks, ok \in BOOLEAN : ReadDone(t, ok)
    \/ UnloadEntry(SetupTask)
    \/ UnloadCloseDone(SetupTask)
    \/ Tick

SpecUnload == Init /\ [][NextUnload]_vars

\* The coordinator polls through the manager, first in the setup task and
\* then in the update loop, while entities subscribe to and unsubscribe from
\* both publishers.  The polls follow each other within the second, so a
\* session whose probe fails is not yet replaced (the backoff window of the
\* connect that made it is still open) and nothing is closed.
NextFanout ==
    \/ FirstRefresh(SetupTask)
    \/ LoopWake(LoopTask)
    \/ \E t \in Tasks, ok \in BOOLEAN, item \in NextItems : ProbeDone(t, ok, item)
    \/ \E t \in Tasks : ConnectOk(t)
    \/ \E t \in Tasks : ConnectFail(t)
    \/ \E t \in Tasks, item \in NextItems : DiscoverBegin(t, item)
    \/ \E t \in Tasks, ok \in BOOLEAN, item \in NextItems : MotorProbeDone(t, ok, item)
    \/ \E t \in Tasks, ok \in BOOLEAN, item \in NextItems : SensorProbeDone(t, ok, item)
    \/ \E t \in Tasks : DiscoverTimeout(t)
    \/ \E t \in Tasks, ok \in BOOLEAN : ReadDone(t, ok)
    \/ \E l \in Listeners : AddListener(l)
    \/ \E l \in Listeners : RemoveListener(l)
    \/ \E l \in Listeners : AddUpdateListener(l)
    \/ \E l \in Listeners : RemoveUpdateListener(l)

SpecFanout == Init /\ [][NextFanout]_vars

\* C15: in a fan-out of either publisher every registered subscriber is
\* called, in order, whether or not an earlier one raised; no exception
\* leaves the fan-out or the operation that made it: ensure_connection does
\* not raise and a notification of True is followed by its return of True
\* with the session held, and a refresh that notified completes normally,
\* with the update loop running afterwards.
C15_FanoutIsolated ==
    /\ note.value # "none" => note.called = note.to /\ ~note.escaped
    /\ note.value = "true" => ret.how = "connected" /\ robot # NoSession
    /\ ret.how # "raised"
    /\ update_note.value # "none" =>
          /\ update_note.called = update_note.to
          /\ ~update_note.escaped
          /\ update_task = "running"
          /\ pc[LoopTask] = "loop_sleep"

\* A step in which both publishers notified two subscribers of which the
\* first raises: a connect that found no sensor, followed at once by the
\* end of the sweep.
C15_Witness ==
    /\ note.value = "true"
    /\ note.to = <<1, 2>>
    /\ note.called = <<1, 2>>
    /\ update_note.to = <<1, 2>>
    /\ update_note.called = <<1, 2>>
    /\ 1 \in RaisingListeners

\* C18: once the manager's shutdown() has returned, and until the manager
\* is called again, no session is held (is_connected is false), the
\* registries are empty (get_motor and get_sensor return None, the get_all
\* accessors return empty maps) and no listener is registered.
C18_ShutdownLeavesNothing ==
    shut_down =>
        /\ robot = NoSession
        /\ Keys(motors) = {}
        /\ Keys(sensors) = {}
        /\ connection_listeners = <<>>

\* C19: after async_unload_entry has returned, the update task of the
\* entry's sensor coordinator has terminated: it takes no further step, so
\* that it calls neither ensure_connection nor the device.
C19_UnloadStopsPolling ==
    [][unload = "done" => pc'[LoopTask] = pc[LoopTask]]_vars

(* ----------------------------- properties ---------------------------- *)

\* Task t is inside "async with self._connection_lock", suspended on a
\* network call of the probe / disconnect / connect / discovery section.
InGate(t) ==
    pc[t] \in {"probe", "closing", "connecting", "discover_scheduled",
               "probe_motor", "probe_sensor"}

ReturnedTrue == ret.how \in {"live", "connected"}
ReturnedFalse == ret.how \in {"skipped", "failed"}

\* C1: ensure_connection is single-flight.  At most one task at a time is
\* inside the probe/disconnect/connect section, that task holds the lock,
\* and at most one at_address call is in flight.
C1_SingleFlight ==
    /\ Cardinality({t \in Tasks : InGate(t)}) <= 1
    /\ Cardinality({t \in Tasks : pc[t] = "connecting"}) <= 1
    /\ \A t \in Tasks : InGate(t) => connection_lock = t

\* A connect is in flight while another caller waits at the gate.
C1_Witness ==
    \E t, u \in Tasks : pc[t] = "connecting" /\ pc[u] = "wait_lock"

\* C2: right after the k-th consecutive failed connect attempt (k >= 1, no
\* successful call in between) the backoff is min(30, 2^k).
C2_BackoffOfStreak ==
    ret.how = "failed" => backoff_time = Min(MaxBackoff, 2 ^ fail_streak)

\* C3: right after an ensure_connection call that returns true, by a passing
\* probe or by a reconnect, the failure count is 0 and the backoff is 1.
C3_SuccessResets ==
    ReturnedTrue => connection_attempts = 0 /\ backoff_time = MinBackoff

\* C4: a transport connect is issued only if at least the current backoff
\* has elapsed since the previous transport connect was issued.
C4_ConnectSpacing ==
    [][\A t \in Tasks :
         (pc[t] # "connecting" /\ pc'[t] = "connecting" /\ connect_at # -1)
         => now - connect_at >= backoff_time]_vars

\* C5 as stated: a call whose backoff check finds now - last_attempt_at <
\* backoff with no live session returns false having sent no request at all.
C5_NoRequestInWindow ==
    ret.in_window => ret.how = "skipped" /\ ret.requests = {}

\* C5 amended: such a call returns false at its backoff check without closing
\* the session and without a connect attempt; the only request it can have
\* sent is the liveness probe of a held session.
C5_OnlyProbeInWindow ==
    /\ \A t \in Tasks : ~in_window[t]
    /\ ret.in_window => ret.how = "skipped" /\ ret.requests \subseteq {"probe"}

\* A call probed a held session, found it dead inside the backoff window and
\* returned false.
C5_Witness ==
    ret.in_window /\ ret.how = "skipped" /\ ret.requests = {"probe"}

\* C6: ensure_connection returns true only if the manager then holds the
\* session this call probed live or connected, and a discovery pass on that
\* session has run to its end.
C6_TrueMeansLiveSession ==
    ReturnedTrue =>
        /\ robot # NoSession
        /\ robot = ret.sess
        /\ ret.sess \in discovered

\* C7: when a call has seen the liveness probe of a held session fail and
\* returns false, the session is nulled and both registries are empty.
C7_ProbeFailureDisconnects ==
    (ReturnedFalse /\ "probe" \in ret.requests) =>
        /\ robot = NoSession
        /\ Keys(motors) = {}
        /\ Keys(sensors) = {}

\* C8: a caller that invoked ensure_connection while a connect attempt was in
\* flight returns what the call that made that attempt returned, and issues
\* no connect of its own.
C8_SharedOutcome ==
    ret.joined \in {"true", "false"} =>
        /\ ReturnedTrue <=> ret.joined = "true"
        /\ "connect" \notin ret.requests

\* C9: what get_all_motors / get_all_sensors returned while a scan ran is the
\* registry as it was before the scan or as it is at the end of the scan.
C9_WholesaleReplace ==
    (scan.state = "done" /\ scan.obs # <<>>) =>
        /\ scan.obs[1] = "motors" => scan.obs[2] \in {scan.pre[1], scan.post[1]}
        /\ scan.obs[1] = "sensors" => scan.obs[2] \in {scan.pre[2], scan.post[2]}

\* C10: no name is a key of both the motor registry and the sensor registry.
C10_OneKindPerName ==
    \A n \in Names : ~(get_motor(n) # NoSession /\ get_sensor(n) # NoSession)

\* Names whose resource the scan's log says answered the given probe.
LoggedAs(log, probe) == {n \in Names : <<n, probe>> \in log}

\* C11: discovery classifies a resource from its probe outcomes alone.  The
\* sensor probe is issued only for the resource whose motor probe has just
\* failed, leaving the registries as they were; and when a scan ends on the
\* session it started on, the motor registry holds exactly the names whose
\* motor probe answered and the sensor registry exactly the names whose
\* sensor probe answered, each with a handle of the scanned session, whatever
\* the registries held before the scan (so a second scan with the same
\* answers gives the same registries).
C11_Classification ==
    [][/\ \A t \in Tasks :
            (pc[t] # "probe_sensor" /\ pc'[t] = "probe_sensor") =>
               /\ pc[t] = "probe_motor"
               /\ component_name'[t] = component_name[t]
               /\ idx'[t] = idx[t]
               /\ motors' = motors /\ sensors' = sensors
               /\ scan'.log = scan.log
       /\ (scan'.state = "done" /\ robot' = scan'.robot) =>
            /\ Keys(motors') = LoggedAs(scan'.log, "motor")
            /\ Keys(sensors') = LoggedAs(scan'.log, "sensor")
            /\ \A n \in Names : motors'[n] \in {NoSession, scan'.robot}
            /\ \A n \in Names : sensors'[n] \in {NoSession, scan'.robot}]_vars

\* A scan over registries that were not empty ends with one resource filed as
\* a motor, another as a sensor, and nothing else.
C11_Witness ==
    /\ scan.state = "done" /\ robot = scan.robot
    /\ scan.pre # <<EmptyRegistry, EmptyRegistry>>
    /\ \E m, n \in Names :
         /\ m # n
         /\ LoggedAs(scan.log, "motor") = {m}
         /\ LoggedAs(scan.log, "sensor") = {n}
         /\ Keys(motors) = {m} /\ Keys(sensors) = {n}

\* C12: a probe failure or probe timeout on one resource never aborts the
\* scan.  A scan that is running keeps running until the list of resources is
\* exhausted, and then every name whose probe answered is in its registry.
C12_ScanRunsToEnd ==
    [][scan.state = "running" =>
         /\ scan'.state \in {"running", "done"}
         /\ scan'.state = "done" =>
              /\ LoggedAs(scan'.log, "motor") \subseteq Keys(motors')
              /\ LoggedAs(scan'.log, "sensor") \subseteq Keys(sensors')]_vars

\* C13: once at_address has handed this call a session, the call returns true
\* and the manager keeps that session, whatever happens in the discovery.
C13_ConnectedStaysConnected ==
    (ret.how # "none" /\ "connect" \in ret.requests /\ ret.sess # NoSession) =>
        /\ ReturnedTrue
        /\ robot = ret.sess

\* C14: listeners are fired on every transition between Connected and
\* Disconnected and never on a no-op.  No listener is called with the boolean
\* it was last called with, none is called with false while the manager held
\* no session, every step that drops the session calls them with false and
\* every reconnect that returns true calls them with true.
C14_NotifyOnTransitionsOnly ==
    [][/\ \A i \in DOMAIN note'.called :
            /\ note'.value # last_note[note'.called[i]]
            /\ note'.value = "false" => robot # NoSession
       /\ (robot # NoSession /\ robot' = NoSession) => note'.value = "false"
       /\ ret'.how = "connected" => note'.value = "true"]_vars

\* C16: ensure_connection never raises; a failure of get_version, close,
\* at_address or a discovery probe ends in a boolean return.
C16_NeverRaises == ret.how # "raised"

\* A call returns false after its liveness probe failed, the old session was
\* closed and the connect failed, with listeners registered.
C16_Witness ==
    /\ ret.how = "failed"
    /\ {"probe", "close", "connect"} \subseteq ret.requests
    /\ note.to # <<>>

\* C31: the published pair (sensor_readings, sensor_timestamps) changes only
\* in the step that ends a cycle: between two publications a reader finds
\* both maps as the last cycle left them, and never a timestamp already
\* advanced next to the old reading.
C31_AtomicSwap ==
    [][(sensor_timestamps' # sensor_timestamps
           \/ sensor_readings' # sensor_readings) => sweep'.state = "done"]_vars

\* C33: whenever the manager holds no session, the motor registry and the
\* sensor registry are both empty.
C33_NoSessionNoRegistry ==
    robot = NoSession => motors = EmptyRegistry /\ sensors = EmptyRegistry

\* C34: a step that makes the manager drop its reference to a session leaves
\* no session behind on which close was never called, and at most one
\* session is open at any time.
C34_ClosedBeforeDropped ==
    [][/\ (robot # NoSession /\ robot' # robot) => robot \notin open_sessions'
       /\ Cardinality(open_sessions') <= 1]_vars

(* ----------- ViamDataAPIClient and ViamDataAPICoordinator ------------- *)

\* The Data API side of the state as one record.
DataCur == [data_client |-> data_client, data_lock |-> data_lock,
            data_readings |-> data_readings,
            data_timestamps |-> data_timestamps,
            data_listeners |-> data_listeners,
            data_update_task |-> data_update_task,
            data_pc |-> data_pc, data_frame |-> data_frame,
            tested |-> tested, data_ret |-> data_ret,
            data_sweep |-> data_sweep, data_note |-> data_note,
            now |-> now]

\* The state a step of the Data API side starts from.
DataFresh == [DataCur EXCEPT !.data_ret = NoDataReturn,
                             !.data_sweep = NoSweep,
                             !.data_note = NoNote]

DataCommit(s) ==
    \E r \in {s} :
        /\ data_client' = r.data_client
        /\ data_lock' = r.data_lock
        /\ data_readings' = r.data_readings
        /\ data_timestamps' = r.data_timestamps
        /\ data_listeners' = r.data_listeners
        /\ data_update_task' = r.data_update_task
        /\ data_pc' = r.data_pc
        /\ data_frame' = r.data_frame
        /\ tested' = r.tested
        /\ data_ret' = r.data_ret
        /\ data_sweep' = r.data_sweep
        /\ data_note' = r.data_note
        /\ UNCHANGED <<direct_vars, cover_vars, hub_vars>>

\* self._sensor_names: the sensor names of the configuration entry.
SensorNames == Names

\* What a tabular_data_by_filter request ends with: rows with readings, no
\* row (or a row without readings), or an error.
FetchOutcomes == {"data", "empty"} \cup TransportErrors
TestOutcomes == {"ok"} \cup TransportErrors

\* The locals of a _refresh frame are dropped.
DataResetSweep(s, t) == [s EXCEPT !.data_frame[t] = NoDataFrame]

\* _start_update_loop (sensor.py 332-335)
DataStartUpdateLoop(s) ==
    IF s.data_update_task # "running"
    THEN [s EXCEPT !.data_update_task = "running",
                   !.data_pc[LoopTask] = "loop_sleep"]
    ELSE s

\* _refresh returns: to the while loop of _update_loop, or to
\* async_config_entry_first_refresh, which starts the loop (327-330).
DataRefreshReturn(s, t) ==
    IF s.data_frame[t].refresh = "loop"
    THEN [DataResetSweep(s, t) EXCEPT !.data_pc[t] = "loop_sleep"]
    ELSE DataStartUpdateLoop([DataResetSweep(s, t) EXCEPT !.data_pc[t] = "idle"])

\* Lines 370-378: the ReadingSet is replaced and the listeners are called; an
\* exception of a listener is caught at 377, or else at 380.
DataSweepEnd(s, t) ==
    LET f == s.data_frame[t]
        r == CallListeners(s.data_listeners, "data_notify")
    IN DataRefreshReturn(
         [s EXCEPT !.data_readings = f.new_readings,
                   !.data_sweep = [state |-> "done", task |-> t,
                                   ok |-> {n \in Names : f.outcome[n] = "ok"},
                                   failed |-> {n \in Names :
                                                 f.outcome[n] = "failed"},
                                   prev |-> s.data_readings],
                   !.data_note = [value |-> "update", to |-> s.data_listeners,
                                  called |-> r.called,
                                  escaped |-> r.escaped]], t)

RECURSIVE DataNextSensor(_, _, _)

\* Fault variant of DataStored: the reading is stored without a timestamp.
DataStoredNoStamp(s, t, n) ==
    [s EXCEPT !.data_frame[t].new_readings[n] = s.now,
              !.data_frame[t].outcome[n] = "ok"]
\* Lines 360-362: the readings are stored in new_readings and the sensor's
\* timestamp is set to the instant the sweep started.
DataStored(s, t, n) ==
    [s EXCEPT !.data_frame[t].new_readings[n] = s.now,
              !.data_timestamps[n] = s.data_frame[t].current_time,
              !.data_frame[t].outcome[n] = "ok"]

\* Lines 359-363: get_latest_sensor_readings returned readings ("data"), or
\* an empty dict or None, for which `if readings:` does nothing.
DataFetched(s, t, result, built) ==
    LET n == s.data_frame[t].sensor_name
    IN IF result = "data"
       THEN DataNextSensor(DataStored(s, t, n), t, built)
       ELSE DataNextSensor([s EXCEPT !.data_frame[t].outcome[n] = "failed"],
                           t, built)

\* Exception e leaves get_latest_sensor_readings: the except clause at 364
\* carries the reading of the published ReadingSet forward (367-368); an
\* exception it does not match ends _refresh at 380, or the task.
DataReadRaised(s, t, e, built) ==
    LET n == s.data_frame[t].sensor_name
    IN IF Caught("data_read", e)
       THEN DataNextSensor(
              [s EXCEPT !.data_frame[t].new_readings[n] = s.data_readings[n],
                        !.data_frame[t].outcome[n] = "failed"], t, built)
       ELSE IF Caught("data_refresh", e) THEN DataRefreshReturn(s, t)
       ELSE [DataResetSweep(s, t) EXCEPT !.data_pc[t] = "idle"]

\* ensure_connection returns (data_api.py 38-42): the lock is released and
\* get_latest_sensor_readings goes on at line 93, returning None or sending
\* its request (96-111).
DataEnsureReturn(s, t, value, test, built) ==
    LET s1 == [s EXCEPT !.data_lock = 0,
                        !.data_ret = [task |-> t,
                                      value |-> IF value THEN "true"
                                                ELSE "false",
                                      test |-> test]]
    IN IF value THEN [s1 EXCEPT !.data_pc[t] = "fetching"]
       ELSE DataFetched(s1, t, "none", built)

\* _connect (44-61) up to the request of _test_connection (78): the client
\* is constructed and stored, unless the constructor raises.
DataConnect(s, t, built) ==
    IF built
    THEN [s EXCEPT !.data_client = "client", !.tested = FALSE,
                   !.data_pc[t] = "testing"]
    ELSE IF Caught("data_connect", "Exception")
    THEN DataEnsureReturn([s EXCEPT !.data_client = "none",
                                    !.tested = FALSE], t, FALSE, "none", built)
    ELSE DataReadRaised([s EXCEPT !.data_lock = 0], t, "Exception", built)

\* The request of _test_connection is over (78-89): _test_connection
\* returns True or, from its except clauses, False; _connect does not look
\* at what it returns (53) and returns True (56).  An exception that leaves
\* _test_connection is caught at line 58.
DataTested(s, t, e, built) ==
    IF e = "ok"
    THEN DataEnsureReturn([s EXCEPT !.tested = TRUE], t, TRUE, "ok", built)
    ELSE IF Caught("data_test", e)
    THEN DataEnsureReturn(s, t, TRUE, "failed", built)
    ELSE IF Caught("data_connect", e)
    THEN DataEnsureReturn([s EXCEPT !.data_client = "none"], t, FALSE,
                          "failed", built)
    ELSE DataReadRaised([s EXCEPT !.data_lock = 0], t, e, built)

\* ensure_connection (36-42): the lock is taken (the coordinator is the only
\* caller of the client and its fetches follow each other, so the lock is
\* free); with a client held it returns True, else it connects.
DataEnsure(s, t, built) ==
    LET s1 == [s EXCEPT !.data_lock = t]
    IN IF s1.data_client # "none"
       THEN DataEnsureReturn(s1, t, TRUE, "none", built)
       ELSE DataConnect(s1, t, built)

\* Top of `for sensor_name in self._sensor_names` (356-358): the next
\* sensor is fetched with get_latest_sensor_readings, or the loop is over.
DataNextSensor(s, t, built) ==
    IF s.data_frame[t].todo = {} THEN DataSweepEnd(s, t)
    ELSE LET n == First(s.data_frame[t].todo)
         IN DataEnsure([s EXCEPT !.data_frame[t].sensor_name = n,
                                 !.data_frame[t].todo = @ \ {n}], t, built)

\* Lines 352-356: new_readings = {}, current_time = time.time().
DataSweepStart(s, t, kind, built) ==
    DataNextSensor(
      [s EXCEPT !.data_frame[t] =
         [refresh |-> kind, new_readings |-> NoReadings,
          current_time |-> s.now, todo |-> SensorNames,
          sensor_name |-> EndOfList, outcome |-> NoOutcome]], t, built)

\* The request of get_latest_sensor_readings is over (108-133): readings
\* are returned, or None when there is no row, on a timeout and on an error.
DataAnswered(s, t, e, built) ==
    IF e \in {"data", "empty"} THEN DataFetched(s, t, e, built)
    ELSE IF Caught("data_get", e) THEN DataFetched(s, t, "none", built)
    ELSE DataReadRaised(s, t, e, built)

\* async_config_entry_first_refresh() of the Data API coordinator, called
\* once by async_setup_entry (sensor.py:97).  `built` tells whether the
\* DataClient constructor succeeds when this step calls it.
DataFirstRefresh(t, built) ==
    /\ data_pc[t] = "idle"
    /\ data_update_task = "none"
    /\ DataCommit(DataSweepStart(DataFresh, t, "first", built))

\* asyncio.sleep(self._update_interval) is over in _update_loop (341-342).
DataLoopWake(t, built) ==
    /\ data_pc[t] = "loop_sleep"
    /\ DataCommit(DataSweepStart(DataFresh, t, "loop", built))

\* The test request answers, fails or times out after 10 s.
DataTestDone(t, e, built) ==
    /\ data_pc[t] = "testing"
    /\ DataCommit(DataTested(DataFresh, t, e, built))

\* The request for a sensor's latest row answers, fails or times out.
DataFetchDone(t, e, built) ==
    /\ data_pc[t] = "fetching"
    /\ DataCommit(DataAnswered(DataFresh, t, e, built))

\* add_listener(listener) of the Data API coordinator
DataAddListener(l) ==
    /\ Len(data_listeners) < NumListeners
    /\ DataCommit([DataFresh EXCEPT !.data_listeners = Append(@, l)])

\* remove_listener(listener) of the Data API coordinator
DataRemoveListener(l) ==
    /\ \E i \in DOMAIN data_listeners : data_listeners[i] = l
    /\ DataCommit([DataFresh EXCEPT !.data_listeners = Remove(@, l)])

\* The Data API coordinator polling the cloud through its client, with
\* entities subscribing and unsubscribing.
NextData ==
    \/ \E built \in BOOLEAN : DataFirstRefresh(SetupTask, built)
    \/ \E built \in BOOLEAN : DataLoopWake(LoopTask, built)
    \/ \E t \in Tasks, e \in TestOutcomes, built \in BOOLEAN :
          DataTestDone(t, e, built)
    \/ \E t \in Tasks, e \in FetchOutcomes, built \in BOOLEAN :
          DataFetchDone(t, e, built)
    \/ \E l \in Listeners : DataAddListener(l)
    \/ \E l \in Listeners : DataRemoveListener(l)
    \/ Tick

SpecData == Init /\ [][NextData]_vars

\* C40: ensure_connection of the Data API client returns true only with a
\* client held on which a test request has succeeded; a call whose test
\* request failed or timed out returns false and leaves no client held.
C40_TrueMeansTested ==
    /\ data_ret.value = "true" => data_client = "client" /\ tested
    /\ data_ret.test = "failed" =>
          data_ret.value = "false" /\ data_client = "none"

\* C32: the ReadingSet a cycle of the Data API coordinator publishes holds,
\* for every configured sensor whose fetch failed, timed out or returned no
\* data, the reading of the ReadingSet published before; and a timestamp
\* changes only for a sensor whose fetch returned readings.
C32_DataCarryOver ==
    [][/\ data_sweep'.state = "done" =>
            \A n \in data_sweep'.failed :
                data_readings'[n] = data_sweep'.prev[n]
       /\ \A n \in Names :
            data_timestamps'[n] # data_timestamps[n] =>
              \/ \E t \in Tasks : data_frame'[t].outcome[n] = "ok"
              \/ data_sweep'.state = "done" /\ n \in data_sweep'.ok]_vars

\* Neither coordinator has made its first refresh yet.
DirectIdle == update_task = "none" /\ \A t \in Tasks : pc[t] = "idle"
DataIdle == data_update_task = "none" /\ \A t \in Tasks : data_pc[t] = "idle"

\* Either coordinator polling: the direct one through the manager, or the
\* Data API one through its client.  The two share no object (each has its
\* own maps, its own task and its own connection), so a run follows one of
\* them from its first refresh on.
NextReadings ==
    \/ DataIdle /\ FirstRefresh(SetupTask)
    \/ LoopWake(LoopTask)
    \/ \E t \in Tasks, ok \in BOOLEAN, item \in NextItems : ProbeDone(t, ok, item)
    \/ \E t \in Tasks : CloseDone(t)
    \/ \E t \in Tasks : ConnectOk(t)
    \/ \E t \in Tasks : ConnectFail(t)
    \/ \E t \in Tasks, item \in NextItems : DiscoverBegin(t, item)
    \/ \E t \in Tasks, ok \in BOOLEAN, item \in NextItems : MotorProbeDone(t, ok, item)
    \/ \E t \in Tasks, ok \in BOOLEAN, item \in NextItems : SensorProbeDone(t, ok, item)
    \/ \E t \in Tasks : DiscoverTimeout(t)
    \/ \E t \in Tasks, ok \in BOOLEAN : ReadDone(t, ok)
    \/ DirectIdle /\ \E built \in BOOLEAN : DataFirstRefresh(SetupTask, built)
    \/ \E built \in BOOLEAN : DataLoopWake(LoopTask, built)
    \/ \E t \in Tasks, e \in TestOutcomes, built \in BOOLEAN :
          DataTestDone(t, e, built)
    \/ \E t \in Tasks, e \in FetchOutcomes, built \in BOOLEAN :
          DataFetchDone(t, e, built)
    \/ Tick

SpecReadings == Init /\ [][NextReadings]_vars

\* C35: in both coordinators every sensor name that has a reading in the
\* published ReadingSet has an entry in the Timestamp Table.
C35_ReadingHasTimestamp ==
    \A n \in Names :
        /\ sensor_readings[n] # Absent => sensor_timestamps[n] # Absent
        /\ data_readings[n] # Absent => data_timestamps[n] # Absent

\* A cycle of the Data API coordinator has published the readings of one
\* sensor, stamped with the cycle's start, while the fetch of the other one
\* failed.
C35_Witness ==
    /\ data_sweep.state = "done"
    /\ data_sweep.failed # {}
    /\ \E n \in data_sweep.ok :
          /\ data_readings[n] # Absent
          /\ data_timestamps[n] # Absent
          /\ data_timestamps[n] < data_readings[n]

(* ------------------------------ ViamCover ------------------------------ *)

\* The cover's side of the state as one record.
CoverCur == [is_opening |-> is_opening, is_closing |-> is_closing,
             is_closed |-> is_closed, current_position |-> current_position,
             cover_pc |-> cover_pc, cover_op |-> cover_op,
             power_sent |-> power_sent, stop_sent |-> stop_sent,
             cover_ret |-> cover_ret]

\* The state a step of the cover starts from.
CoverFresh == [CoverCur EXCEPT !.cover_ret = NoCoverReturn]

CoverCommit(s) ==
    \E r \in {s} :
        /\ is_opening' = r.is_opening
        /\ is_closing' = r.is_closing
        /\ is_closed' = r.is_closed
        /\ current_position' = r.current_position
        /\ cover_pc' = r.cover_pc
        /\ cover_op' = r.cover_op
        /\ power_sent' = r.power_sent
        /\ stop_sent' = r.stop_sent
        /\ cover_ret' = r.cover_ret
        /\ UNCHANGED <<direct_vars, data_vars, hub_vars>>

\* What a request to the motor ends with within its 5 s.
MotorOutcomes == {"ok"} \cup TransportErrors

\* Fault variant of CoverMoving: the guard of open and close never finds
\* the cover moving.
CoverNeverMoving(s) == FALSE
\* `self._is_opening or self._is_closing` (lines 147 and 174)
CoverMoving(s) == s.is_opening \/ s.is_closing

\* A service call returns to Home Assistant.
CoverReturn(s, t, success) ==
    [s EXCEPT !.cover_pc[t] = "idle",
              !.cover_op[t] = "none",
              !.power_sent[t] = FALSE,
              !.stop_sent[t] = FALSE,
              !.cover_ret = [task |-> t, op |-> s.cover_op[t],
                             success |-> success,
                             power_sent |-> s.power_sent[t],
                             stop_sent |-> s.stop_sent[t]]]

\* async_open_cover / async_close_cover after _execute_motor_operation has
\* returned `success` or raised (lines 161-170, 188-197): on success the
\* closed flag and the position are set; the finally clause clears the
\* call's own moving flag.
CoverFinish(s, t, success) ==
    LET op == s.cover_op[t]
        s1 == IF success
              THEN [s EXCEPT !.is_closed = (op = "close"),
                             !.current_position = IF op = "close"
                                                  THEN PositionClosed
                                                  ELSE PositionOpen]
              ELSE s
    IN CoverReturn([s1 EXCEPT !.is_opening = IF op = "open" THEN FALSE ELSE @,
                              !.is_closing = IF op = "close" THEN FALSE ELSE @],
                   t, success)

\* The finally clause of async_stop_cover (lines 219-222): both moving
\* flags are cleared.
CoverStopFinish(s, t, success) ==
    CoverReturn([s EXCEPT !.is_opening = FALSE, !.is_closing = FALSE],
                t, success)

\* A request of _execute_motor_operation failed with e (lines 138-143): the
\* except clauses return False; an exception they do not match is caught by
\* the caller's `except Exception` (166, 193).
MotorOperationFailed(s, t, e) == CoverFinish(s, t, FALSE)

\* async_open_cover(): lines 147-153 and _execute_motor_operation up to the
\* await of ensure_connection.
CoverOpen(t) ==
    /\ cover_pc[t] = "idle"
    /\ LET s == [CoverFresh EXCEPT !.cover_op[t] = "open"]
       IN IF CoverMoving(s) THEN CoverCommit(CoverReturn(s, t, FALSE))
          ELSE CoverCommit([s EXCEPT !.is_opening = TRUE,
                                     !.cover_pc[t] = "ensure"])

\* async_close_cover(): lines 174-180, likewise.
CoverClose(t) ==
    /\ cover_pc[t] = "idle"
    /\ LET s == [CoverFresh EXCEPT !.cover_op[t] = "close"]
       IN IF CoverMoving(s) THEN CoverCommit(CoverReturn(s, t, FALSE))
          ELSE CoverCommit([s EXCEPT !.is_closing = TRUE,
                                     !.cover_pc[t] = "ensure"])

\* async_stop_cover() up to the await of ensure_connection (line 202).
CoverStop(t) ==
    /\ cover_pc[t] = "idle"
    /\ CoverCommit([CoverFresh EXCEPT !.cover_op[t] = "stop",
                                      !.cover_pc[t] = "ensure"])

\* ensure_connection() of the manager has returned `connected`, and
\* get_motor finds the motor or not (lines 121-129, 202-210).  Without a
\* connection or a motor the call ends; else open and close send set_power
\* (133) and stop sends stop (213).
CoverEnsured(t, connected, found) ==
    /\ cover_pc[t] = "ensure"
    /\ LET s == CoverFresh
       IN IF cover_op[t] = "stop"
          THEN IF connected /\ found
               THEN CoverCommit([s EXCEPT !.cover_pc[t] = "stop_only",
                                          !.stop_sent[t] = TRUE])
               ELSE CoverCommit(CoverReturn(s, t, FALSE))
          ELSE IF connected /\ found
               THEN CoverCommit([s EXCEPT !.cover_pc[t] = "set_power",
                                          !.power_sent[t] = TRUE])
               ELSE CoverCommit(CoverFinish(s, t, FALSE))

\* motor.set_power() answers, fails or times out (line 133): on an answer
\* the call sleeps for the travel time (134).
SetPowerDone(t, e) ==
    /\ cover_pc[t] = "set_power"
    /\ IF e = "ok"
       THEN CoverCommit([CoverFresh EXCEPT !.cover_pc[t] = "sleeping"])
       ELSE CoverCommit(MotorOperationFailed(CoverFresh, t, e))

\* asyncio.sleep(duration) is over: motor.stop() is sent (line 135).
SleepDone(t) ==
    /\ cover_pc[t] = "sleeping"
    /\ CoverCommit([CoverFresh EXCEPT !.cover_pc[t] = "stopping",
                                      !.stop_sent[t] = TRUE])

\* motor.stop() of _execute_motor_operation answers, fails or times out
\* (lines 135-143).
MotorStopDone(t, e) ==
    /\ cover_pc[t] = "stopping"
    /\ IF e = "ok"
       THEN CoverCommit(CoverFinish(CoverFresh, t, TRUE))
       ELSE CoverCommit(MotorOperationFailed(CoverFresh, t, e))

\* motor.stop() of async_stop_cover answers, fails or times out (212-222).
CoverStopDone(t, e) ==
    /\ cover_pc[t] = "stop_only"
    /\ CoverCommit(CoverStopFinish(CoverFresh, t, e = "ok"))

\* Home Assistant calling the three services of one cover, each call in a
\* task of its own.
NextCover ==
    \/ \E t \in Tasks : CoverOpen(t)
    \/ \E t \in Tasks : CoverClose(t)
    \/ \E t \in Tasks : CoverStop(t)
    \/ \E t \in Tasks, connected \in BOOLEAN, found \in BOOLEAN :
          CoverEnsured(t, connected, found)
    \/ \E t \in Tasks, e \in MotorOutcomes : SetPowerDone(t, e)
    \/ \E t \in Tasks : SleepDone(t)
    \/ \E t \in Tasks, e \in MotorOutcomes : MotorStopDone(t, e)
    \/ \E t \in Tasks, e \in MotorOutcomes : CoverStopDone(t, e)

SpecCover == Init /\ [][NextCover]_vars

\* The task is inside the set_power, sleep, stop sequence of an open or a
\* close.
InMotorOperation(t) == cover_pc[t] \in {"set_power", "sleeping", "stopping"}

\* C36: an open or close that has issued set_power to the motor has issued
\* stop to it by the time it returns, however set_power ended.
C36_StopAfterPower ==
    cover_ret.power_sent => cover_ret.stop_sent

\* C37: at most one motor operation of a cover is in flight at a time.
C37_OneMotorOperation ==
    Cardinality({t \in Tasks : InMotorOperation(t)}) <= 1

\* C38: is_opening and is_closing are never both true; is_closed is true
\* exactly when the position is 0; and is_closed and the position change
\* only in the step in which an open or close returns after its motor
\* operation reported success.
C38_CoverStateConsistent ==
    [][/\ ~(is_opening /\ is_closing)
       /\ ~(is_opening' /\ is_closing')
       /\ is_closed' <=> (current_position' = PositionClosed)
       /\ (is_closed' # is_closed \/ current_position' # current_position) =>
             /\ cover_ret'.success
             /\ cover_ret'.op \in {"open", "close"}
             /\ cover_ret'.power_sent /\ cover_ret'.stop_sent]_vars

\* A close has returned with success while another call was waiting for the
\* connection: the cover is closed, at position 0, and not moving.
C38_Witness ==
    /\ cover_ret.op = "close"
    /\ cover_ret.success
    /\ is_closed
    /\ current_position = PositionClosed
    /\ ~is_closing
    /\ \E t \in Tasks : cover_pc[t] = "ensure"

(* ------------------------- the legacy Hub (hub.py) --------------------- *)

\* tries = min(tries, 10) and min(1.8**tries, 60.0) in
\* _wait_and_start_reconnect
TriesCap == 10
MaxWait == 60

RECURSIVE Pow(_, _)
Pow(b, k) == IF k = 0 THEN 1 ELSE b * Pow(b, k - 1)

\* 1.8**k >= 60.0, with 1.8 as 18/10; once true it stays true for larger k.
RECURSIVE WaitCapped(_)
WaitCapped(k) ==
    IF k > 0 /\ WaitCapped(k - 1) THEN TRUE
    ELSE Pow(18, k) >= MaxWait * Pow(10, k)

\* int(round(min(1.8**tries, 60.0))) after tries = min(tries, 10)
WaitTime(n) ==
    LET k == Min(n, TriesCap)
    IN IF WaitCapped(k) THEN MaxWait
       ELSE (2 * Pow(18, k) + Pow(10, k)) \div (2 * Pow(10, k))

\* The Hub's side of the state as one record.
HubCur == [hub_loop_task |-> hub_loop_task,
           reconnect_event |-> reconnect_event,
           hub_connected |-> hub_connected, tries |-> tries,
           wait_task |-> wait_task, hub_robot |-> hub_robot,
           hub_pc |-> hub_pc, wait_time |-> wait_time,
           entity_pc |-> entity_pc,
           wait_tasks |-> wait_tasks, hub_test |-> hub_test]

\* The state a step of the Hub starts from.
HubFresh == [HubCur EXCEPT !.hub_test = "none"]

HubCommit(s) ==
    \E r \in {s} :
        /\ hub_loop_task' = r.hub_loop_task
        /\ reconnect_event' = r.reconnect_event
        /\ hub_connected' = r.hub_connected
        /\ tries' = r.tries
        /\ wait_task' = r.wait_task
        /\ hub_robot' = r.hub_robot
        /\ hub_pc' = r.hub_pc
        /\ wait_time' = r.wait_time
        /\ entity_pc' = r.entity_pc
        /\ wait_tasks' = r.wait_tasks
        /\ hub_test' = r.hub_test
        /\ UNCHANGED <<direct_vars, data_vars, cover_vars>>

\* _try_connect up to the first await of test_connection (lines 155-159,
\* 57-63, 98-109): the try count goes up (it is only ever read through
\* min(tries, 10), so it is kept at 10 from there on); with a cached robot
\* get_status() is awaited, else RobotClient.at_address().
TryConnect(s) ==
    LET s1 == [s EXCEPT !.tries = Min(@ + 1, TriesCap)]
    IN IF s1.hub_robot # "none"
       THEN [s1 EXCEPT !.hub_pc = "get_status"]
       ELSE [s1 EXCEPT !.hub_pc = "connecting"]

\* _reconnect_once from its top (lines 145-151) with the event set: the
\* event is cleared; in the connected state the loop sleeps _loop_every
\* seconds before it tests the connection.
ReconnectOnce(s) ==
    LET s1 == [s EXCEPT !.reconnect_event = FALSE]
    IN IF s1.hub_connected THEN [s1 EXCEPT !.hub_pc = "loop_sleep"]
       ELSE TryConnect(s1)

\* The top of the while loop of _reconnect_loop: _reconnect_once goes on at
\* once if the event is set, else it is suspended in the event's wait().
LoopTop(s) ==
    IF s.reconnect_event THEN ReconnectOnce(s)
    ELSE [s EXCEPT !.hub_pc = "wait_event"]

\* test_connection has returned `success` (lines 159-181).  On success the
\* tries are reset, the hub is connected and the event is set; else the hub
\* is not connected and a wait task is created unless there is one, which
\* runs up to its sleep (186-197).  Then the loop goes round.
Tested(s, success) ==
    LET s0 == [s EXCEPT !.hub_test = IF success THEN "ok" ELSE "failed"]
    IN IF success
       THEN LoopTop([s0 EXCEPT !.tries = 0,
                               !.hub_connected = TRUE,
                               !.reconnect_event = TRUE])
       ELSE IF s0.wait_task # "none"
       THEN LoopTop([s0 EXCEPT !.hub_connected = FALSE])
       ELSE LoopTop([s0 EXCEPT !.hub_connected = FALSE,
                               !.wait_task = "running",
                               !.wait_tasks = @ + 1,
                               !.wait_time = WaitTime(s0.tries)])

\* start() (lines 120-128): the loop task is created, the hub is marked
\* not connected and the event is set; the new task then runs
\* _reconnect_once up to its first await.
HubStart ==
    /\ hub_loop_task = "none"
    /\ HubCommit(LoopTop([HubFresh EXCEPT !.hub_loop_task = "running",
                                          !.hub_connected = FALSE,
                                          !.reconnect_event = TRUE]))

\* The event was set while the loop waited for it (line 145).
EventWake ==
    /\ hub_pc = "wait_event"
    /\ reconnect_event
    /\ HubCommit(ReconnectOnce(HubFresh))

\* asyncio.sleep(self._loop_every) is over (line 150).
LoopSleepDone ==
    /\ hub_pc = "loop_sleep"
    /\ HubCommit(TryConnect(HubFresh))

\* RobotClient.at_address() returns a robot, which is cached and asked for
\* its status (lines 109-112, 60-63), or raises, and setup_viam_conn
\* returns None (113-118), so that the test fails (73-74).
HubConnectDone(ok) ==
    /\ hub_pc = "connecting"
    /\ IF ok
       THEN HubCommit([HubFresh EXCEPT !.hub_robot = "robot",
                                       !.hub_pc = "get_status"])
       ELSE HubCommit(Tested(HubFresh, FALSE))

\* robot.get_status() answers with a status list, with an empty one, or
\* raises, and the cached robot is dropped (lines 63-72).
HubStatusDone(r) ==
    /\ hub_pc = "get_status"
    /\ CASE r = "status" -> HubCommit(Tested(HubFresh, TRUE))
         [] r = "empty" -> HubCommit(Tested(HubFresh, FALSE))
         [] OTHER -> HubCommit(Tested([HubFresh EXCEPT !.hub_robot = "none"],
                                      FALSE))

\* The sleep of the wait task is over (lines 197-200): the task gives up
\* its slot and sets the event.
WaitDone ==
    /\ wait_task = "running"
    /\ HubCommit([HubFresh EXCEPT !.wait_task = "none",
                                  !.wait_tasks = @ - 1,
                                  !.wait_time = 0,
                                  !.reconnect_event = TRUE])

\* setup_viam_conn() called by a cover or sensor entity of the legacy
\* integration (lines 98-109): the cached robot is returned, or
\* RobotClient.at_address() is awaited.
SetupViamConn ==
    /\ hub_loop_task = "running"
    /\ entity_pc = "idle"
    /\ hub_robot = "none"
    /\ HubCommit([HubFresh EXCEPT !.entity_pc = "connecting"])

\* at_address() of the entity's call returns a robot, which is cached
\* (110-112), or raises (113-118).
SetupViamConnDone(ok) ==
    /\ entity_pc = "connecting"
    /\ HubCommit([HubFresh EXCEPT !.entity_pc = "idle",
                                  !.hub_robot = IF ok THEN "robot" ELSE @])

NextHub ==
    \/ HubStart
    \/ SetupViamConn
    \/ \E ok \in BOOLEAN : SetupViamConnDone(ok)
    \/ EventWake
    \/ LoopSleepDone
    \/ \E ok \in BOOLEAN : HubConnectDone(ok)
    \/ \E r \in {"status", "empty", "error"} : HubStatusDone(r)
    \/ WaitDone

\* What asyncio guarantees: a task whose event is set is run, and a sleep
\* ends.  RobotClient.at_address() and get_status() are awaited without a
\* timeout (self._timeout is never read), so nothing makes them end.
HubFairness ==
    /\ WF_vars(HubStart)
    /\ WF_vars(EventWake \/ LoopSleepDone)
    /\ WF_vars(WaitDone)

SpecHub == Init /\ [][NextHub]_vars /\ HubFairness

\* The reconnect loop is inside a connection test.
InTest == hub_pc \in {"connecting", "get_status"}

\* C39: at most one wait task exists at a time; after every connection test
\* of the reconnect loop, passed or failed, another one is made; and every
\* connection test ends, a connection attempt that does not complete being
\* failed.
C39_LoopKeepsTesting ==
    /\ [](wait_tasks <= 1)
    /\ (hub_test # "none") ~> InTest
    /\ InTest ~> (hub_test # "none")

=============================================================================
